---- MODULE Spec2Model ----
(***************************************************************************)
(* A model of the workflow-builder backends: the component validator, the *)
(* enhanced workflow executor, document upload, workflow execution and     *)
(* chat of Backend/main.py, with their counterparts in                     *)
(* Backend/simple_backend.py and Backend/simple_main.py.                   *)
(*                                                                         *)
(* JSON values are records [kind, v]: kind "str" carries a string, "num"   *)
(* a number in tenths (0.7 is 7, 100 is 1000), "list" a sequence, "null"   *)
(* nothing.  A configuration mapping is a function whose DOMAIN is the set *)
(* of keys present in it.                                                  *)
(***************************************************************************)
EXTENDS Integers, Sequences, FiniteSets, TLC

VARIABLES
    backend,       \* the program that is serving: main.py, simple_backend.py or simple_main.py
    vreq,          \* the validation request: [component_type, configuration]
    vresp,         \* the response it got
    workflows,     \* the Workflow table: id -> [name, nodes, edges]
    chat_history,  \* the ChatHistory table, in insertion order
    used_ids,      \* the execution ids uuid4 has handed out
    xreq,          \* the last execute-enhanced request
    xresp,         \* the response it got
    xlog,          \* the successive contents of execution_status during that run
    xcontext,      \* combined_context of that run, when the run computed it
    xai,           \* ai_response of that run, when the run computed it
    llm_calls,     \* the prompts that run passed to the external LLM, in call order
    returned_ids,  \* the execution ids the responses so far carried, in order
    documents,     \* the Document table: id -> row
    collection,    \* the vector store: chunk id -> [document, metadata]
    uploads,       \* the upload requests: request -> [pc, file, ...locals, response]
    creq,          \* the last request to /execute or /api/chat
    cresp,         \* the response it got
    calls,         \* the calls that request made to external services, in order
    served,        \* how many execution and chat requests have been answered
    listed,        \* the registries GET /api/components/types has returned, in order
    deletes,       \* the delete requests: request -> [pc, ...locals, response]
    ct             \* the call of chunk_text under way: its arguments and locals

vars ==
    <<backend, vreq, vresp, workflows, chat_history, used_ids, xreq, xresp, xlog, xcontext,
      xai, llm_calls, returned_ids, served, documents, collection, uploads,
      creq, cresp, calls, listed, deletes, ct>>

---------------------------------------------------------------------------
(* JSON values *)

Null == [kind |-> "null", v |-> 0]
Str(s) == [kind |-> "str", v |-> s]
\* an integer
Num(n) == [kind |-> "num", v |-> 10 * n]
\* a decimal given in tenths
Dec(t) == [kind |-> "num", v |-> t]
List(q) == [kind |-> "list", v |-> q]
\* enumeration only: the key is left out of the mapping
Absent == [kind |-> "absent", v |-> 0]

\* the mapping that holds the keys of r that are not Absent
Mapping(r) == [k \in {f \in DOMAIN r : r[f] # Absent} |-> r[k]]

EmptyMapping == Mapping([none |-> Absent])

\* dict.get(key) / dict.get(key, default)
Get(d, key, default) == IF key \in DOMAIN d THEN d[key] ELSE default

\* Python's truth value of a JSON value
Truthy(x) ==
    CASE x.kind = "null" -> FALSE
      [] x.kind = "str"  -> x.v # ""
      [] x.kind = "num"  -> x.v # 0
      [] x.kind = "list" -> x.v # <<>>

IsSpace(c) == c \in {" ", "\t", "\n"}

RECURSIVE LStrip(_)
LStrip(s) == IF s # "" /\ IsSpace(Head(s)) THEN LStrip(Tail(s)) ELSE s

RECURSIVE RStrip(_)
RStrip(s) ==
    IF s # "" /\ IsSpace(SubSeq(s, Len(s), Len(s)))
    THEN RStrip(SubSeq(s, 1, Len(s) - 1))
    ELSE s

\* str.strip()
Strip(s) == RStrip(LStrip(s))

\* n copies of s
RECURSIVE Repeat(_, _)
Repeat(s, n) ==
    IF n = 0 THEN ""
    ELSE IF n % 2 = 0 THEN LET h == Repeat(s, n \div 2) IN h \o h
    ELSE s \o Repeat(s, n - 1)

---------------------------------------------------------------------------
(* The component validator of main.py *)

QueryMaxLen == 1000
ChunkSizeDefault == 1000
ChunkSizeMin == 100
ChunkSizeMax == 4000
TemperatureMin == 0
TemperatureMax == 1
MaxTokensDefault == 2048
MaxTokensMin == 1
MaxTokensMax == 8192
TemperatureDefault == Dec(7)

\* x == "literal"
Is(x, s) == x.kind = "str" /\ x.v = s

\* what a branch of the validator leaves behind: the two lists, or raised = TRUE
\* when evaluating it raised an exception
Checked(errors, warnings) == [raised |-> FALSE, errors |-> errors, warnings |-> warnings]
Raised == [raised |-> TRUE, errors |-> <<>>, warnings |-> <<>>]

\* mutant: a warning makes the configuration invalid too
ComponentValidationResponse_Strict(errors, warnings) ==
    [code |-> 200, is_valid |-> (Len(errors) = 0 /\ Len(warnings) = 0),
     errors |-> errors, warnings |-> warnings, detail |-> ""]

\* ComponentValidationResponse(is_valid=len(errors) == 0, ...)
ComponentValidationResponse(errors, warnings) ==
    [code |-> 200, is_valid |-> (Len(errors) = 0), errors |-> errors,
     warnings |-> warnings, detail |-> ""]

\* raise HTTPException(status_code=500, detail=...)
HTTPException(code, detail) ==
    [code |-> code, is_valid |-> FALSE, errors |-> <<>>, warnings |-> <<>>,
     detail |-> detail]

\* mutant: the length warning starts at 1000 characters, not above
validate_userQuery_AtLeast(config) ==
    LET query == Get(config, "query", Null) IN
    IF ~Truthy(query) THEN Checked(<<"Query is required">>, <<>>)
    ELSE IF query.kind # "str" THEN Raised
    ELSE IF Strip(query.v) = "" THEN Checked(<<"Query is required">>, <<>>)
    ELSE IF Len(query.v) >= QueryMaxLen
         THEN Checked(<<>>, <<"Query is very long, consider shortening">>)
    ELSE Checked(<<>>, <<>>)

\* if component_type == "userQuery":
validate_userQuery(config) ==
    LET query == Get(config, "query", Null) IN
    IF ~Truthy(query) THEN Checked(<<"Query is required">>, <<>>)
    ELSE IF query.kind # "str" THEN Raised      \* .strip() of a number or a list
    ELSE IF Strip(query.v) = "" THEN Checked(<<"Query is required">>, <<>>)
    ELSE IF Len(query.v) > QueryMaxLen
         THEN Checked(<<>>, <<"Query is very long, consider shortening">>)
    ELSE Checked(<<>>, <<>>)

\* mutant: a chunk size out of range is an error, not a warning
validate_knowledgeBase_ChunkError(config) ==
    LET source == Get(config, "source", Null)
        errors ==
            IF ~Truthy(source) THEN <<"Knowledge source is required">>
            ELSE IF Is(source, "upload") /\ ~Truthy(Get(config, "documents", Null))
                 THEN <<"Documents are required for upload source">>
            ELSE IF Is(source, "url") /\ ~Truthy(Get(config, "url", Null))
                 THEN <<"URL is required for URL source">>
            ELSE IF Is(source, "text") /\ ~Truthy(Get(config, "textContent", Null))
                 THEN <<"Text content is required for text source">>
            ELSE <<>>
        chunk_size == Get(config, "chunkSize", Num(ChunkSizeDefault))
    IN
    IF chunk_size.kind # "num" THEN Raised
    ELSE IF chunk_size.v < Num(ChunkSizeMin).v \/ chunk_size.v > Num(ChunkSizeMax).v
         THEN Checked(Append(errors, "Chunk size should be between 100-4000 characters"),
                      <<>>)
    ELSE Checked(errors, <<>>)

\* elif component_type == "knowledgeBase":
validate_knowledgeBase(config) ==
    LET source == Get(config, "source", Null)
        errors ==
            IF ~Truthy(source) THEN <<"Knowledge source is required">>
            ELSE IF Is(source, "upload") /\ ~Truthy(Get(config, "documents", Null))
                 THEN <<"Documents are required for upload source">>
            ELSE IF Is(source, "url") /\ ~Truthy(Get(config, "url", Null))
                 THEN <<"URL is required for URL source">>
            ELSE IF Is(source, "text") /\ ~Truthy(Get(config, "textContent", Null))
                 THEN <<"Text content is required for text source">>
            ELSE <<>>
        chunk_size == Get(config, "chunkSize", Num(ChunkSizeDefault))
    IN
    IF chunk_size.kind # "num" THEN Raised      \* < between a str or None and an int
    ELSE IF chunk_size.v < Num(ChunkSizeMin).v \/ chunk_size.v > Num(ChunkSizeMax).v
         THEN Checked(errors, <<"Chunk size should be between 100-4000 characters">>)
    ELSE Checked(errors, <<>>)

\* mutant: the temperature bounds are exclusive
validate_llmEngine_Exclusive(config) ==
    LET e1 == IF ~Truthy(Get(config, "model", Null))
              THEN <<"Model selection is required">> ELSE <<>>
        temperature == Get(config, "temperature", TemperatureDefault)
        max_tokens == Get(config, "maxTokens", Num(MaxTokensDefault))
    IN
    IF temperature.kind # "num" THEN Raised
    ELSE LET e2 == IF temperature.v <= Num(TemperatureMin).v
                      \/ temperature.v >= Num(TemperatureMax).v
                   THEN Append(e1, "Temperature must be between 0 and 1") ELSE e1
         IN
         IF max_tokens.kind # "num" THEN Raised
         ELSE IF max_tokens.v < Num(MaxTokensMin).v \/ max_tokens.v > Num(MaxTokensMax).v
              THEN Checked(e2, <<"Max tokens should be between 1-8192">>)
         ELSE Checked(e2, <<>>)

\* elif component_type == "llmEngine":
validate_llmEngine(config) ==
    LET e1 == IF ~Truthy(Get(config, "model", Null))
              THEN <<"Model selection is required">> ELSE <<>>
        temperature == Get(config, "temperature", TemperatureDefault)
        max_tokens == Get(config, "maxTokens", Num(MaxTokensDefault))
    IN
    IF temperature.kind # "num" THEN Raised
    ELSE LET e2 == IF temperature.v < Num(TemperatureMin).v
                      \/ temperature.v > Num(TemperatureMax).v
                   THEN Append(e1, "Temperature must be between 0 and 1") ELSE e1
         IN
         IF max_tokens.kind # "num" THEN Raised
         ELSE IF max_tokens.v < Num(MaxTokensMin).v \/ max_tokens.v > Num(MaxTokensMax).v
              THEN Checked(e2, <<"Max tokens should be between 1-8192">>)
         ELSE Checked(e2, <<>>)

\* mutant: the destination is looked at only when the format is there
validate_output_Elif(config) ==
    LET destination == Get(config, "destination", Str("display")) IN
    IF ~Truthy(Get(config, "format", Null))
    THEN Checked(<<"Output format is required">>, <<>>)
    ELSE IF Is(destination, "email") /\ ~Truthy(Get(config, "email", Null))
    THEN Checked(<<"Email address is required for email destination">>, <<>>)
    ELSE IF Is(destination, "api") /\ ~Truthy(Get(config, "apiEndpoint", Null))
    THEN Checked(<<"API endpoint is required for API destination">>, <<>>)
    ELSE Checked(<<>>, <<>>)

\* elif component_type == "output":
validate_output(config) ==
    LET e1 == IF ~Truthy(Get(config, "format", Null))
              THEN <<"Output format is required">> ELSE <<>>
        destination == Get(config, "destination", Str("display"))
    IN
    IF Is(destination, "email") /\ ~Truthy(Get(config, "email", Null))
    THEN Checked(Append(e1, "Email address is required for email destination"), <<>>)
    ELSE IF Is(destination, "api") /\ ~Truthy(Get(config, "apiEndpoint", Null))
    THEN Checked(Append(e1, "API endpoint is required for API destination"), <<>>)
    ELSE Checked(e1, <<>>)

\* the if/elif chain over component_type; a type none of the branches names
\* leaves both lists empty
validate_branches(component_type, config) ==
    CASE component_type = "userQuery"     -> validate_userQuery(config)
      [] component_type = "knowledgeBase" -> validate_knowledgeBase(config)
      [] component_type = "llmEngine"     -> validate_llmEngine(config)
      [] component_type = "output"        -> validate_output(config)
      [] OTHER                            -> Checked(<<>>, <<>>)

\* POST /api/components/validate
validate_component(component_type, config) ==
    LET r == validate_branches(component_type, config) IN
    IF r.raised THEN HTTPException(500, "Failed to validate component")
    ELSE ComponentValidationResponse(r.errors, r.warnings)

---------------------------------------------------------------------------
(* The component validator of simple_backend.py *)

\* COMPONENT_TYPES: type name -> the field names of its configSchema, in order
COMPONENT_TYPES ==
    [userquery     |-> <<"placeholder", "required">>,
     knowledgebase |-> <<"sources", "searchMode">>,
     llmengine     |-> <<"model", "temperature">>,
     output        |-> <<"format", "includeMetadata">>]

SimpleValidationResponse(errors, warnings) ==
    [code |-> 200, is_valid |-> (Len(errors) = 0), errors |-> errors,
     warnings |-> warnings, suggestions |-> <<>>, detail |-> ""]

\* for field, schema in config_schema.items(): if field not in request.configuration
RECURSIVE MissingFieldWarnings(_, _)
MissingFieldWarnings(fields, config) ==
    IF fields = <<>> THEN <<>>
    ELSE (IF Head(fields) \in DOMAIN config THEN <<>>
          ELSE <<"Missing configuration field: " \o Head(fields)>>)
         \o MissingFieldWarnings(Tail(fields), config)

\* POST /api/components/validate
simple_validate_component(component_type, config) ==
    IF component_type \notin DOMAIN COMPONENT_TYPES
    THEN SimpleValidationResponse(<<"Unknown component type: " \o component_type>>, <<>>)
    ELSE SimpleValidationResponse(
             <<>>, MissingFieldWarnings(COMPONENT_TYPES[component_type], config))

---------------------------------------------------------------------------
(* The requests the validator is given *)

LongQuery == Repeat("x", QueryMaxLen + 1)
FullQuery == Repeat("x", QueryMaxLen)

QueryValues ==
    {Absent, Null, Str(""), Str("  "), Str("\t\n"), Str("hi"), Str(" hi "),
     Str(FullQuery), Str(LongQuery), Str(" " \o FullQuery),
     Num(0), Num(5), List(<<>>), List(<<"hi">>)}

UserQueryConfigs == {Mapping([query |-> q]) : q \in QueryValues}

SourceValues ==
    {Absent, Null, Str(""), Str("upload"), Str("url"), Str("text"), Str("database")}
DocumentsValues == {Absent, List(<<>>), List(<<"doc1">>)}
UrlValues == {Absent, Str(""), Str("http://x")}
TextContentValues == {Absent, Str(""), Str("some text")}
ChunkSizeValues ==
    {Absent, Num(ChunkSizeMin - 1), Num(ChunkSizeMin), Num(ChunkSizeDefault),
     Num(ChunkSizeMax), Num(ChunkSizeMax + 1), Str("big"), Null}

KnowledgeBaseConfigs ==
    {Mapping([source |-> s, documents |-> d, url |-> u, textContent |-> t,
              chunkSize |-> c]) :
        s \in SourceValues, d \in DocumentsValues, u \in UrlValues,
        t \in TextContentValues, c \in ChunkSizeValues}

ModelValues == {Absent, Null, Str(""), Str("gpt-4")}
TemperatureValues ==
    {Absent, Dec(-1), Num(TemperatureMin), Dec(7), Num(TemperatureMax), Dec(11),
     Num(2), Str("hot"), Null}
MaxTokensValues ==
    {Absent, Num(MaxTokensMin - 1), Num(MaxTokensMin), Num(MaxTokensDefault),
     Num(MaxTokensMax), Num(MaxTokensMax + 1), Str("many"), List(<<>>)}

LLMEngineConfigs ==
    {Mapping([model |-> m, temperature |-> t, maxTokens |-> k]) :
        m \in ModelValues, t \in TemperatureValues, k \in MaxTokensValues}

FormatValues == {Absent, Null, Str(""), Str("json")}
DestinationValues ==
    {Absent, Str("display"), Str("download"), Str("email"), Str("api"), Str("ftp")}
EmailValues == {Absent, Str(""), Str("a@b.c")}
ApiEndpointValues == {Absent, Str(""), Str("http://api")}

OutputConfigs ==
    {Mapping([format |-> f, destination |-> d, email |-> e, apiEndpoint |-> a]) :
        f \in FormatValues, d \in DestinationValues, e \in EmailValues,
        a \in ApiEndpointValues}

KnownKinds == {"userQuery", "knowledgeBase", "llmEngine", "output"}
OtherTypes == {"bogus", "", "userquery", "llmengine", "UserQuery"}
OtherConfigs ==
    {EmptyMapping, Mapping([query |-> Str("hi")]),
     Mapping([model |-> Str("gpt-4"), temperature |-> Dec(7)]),
     Mapping([placeholder |-> Str("ask"), required |-> Num(1)])}

\* the (component_type, configuration) pairs of the requests
ValidationRequests ==
    ({"userQuery"} \X (UserQueryConfigs \cup OtherConfigs))
    \cup ({"knowledgeBase"} \X KnowledgeBaseConfigs)
    \cup ({"llmEngine"} \X LLMEngineConfigs)
    \cup ({"output"} \X OutputConfigs)
    \cup (OtherTypes \X OtherConfigs)

NoRequest == [component_type |-> "", configuration |-> <<>>, sent |-> FALSE]
NoResponse == [code |-> 0]

---------------------------------------------------------------------------
(* The enhanced workflow executor of main.py *)

\* an Optional value: None or the value
None == <<>>
Some(x) == <<x>>

\* mutant: a node placed left of the canvas is passed over
NodesOfType_Placed(nodes, t) == SelectSeq(nodes, LAMBDA n : n.type = t /\ n.position.x >= 0)

\* [n for n in nodes if n.get("type") == t]
NodesOfType(nodes, t) == SelectSeq(nodes, LAMBDA n : n.type = t)

UploadPlaceholder == "Document content would be processed here"
UrlPlaceholder == "URL content would be processed here"

\* what one knowledgeBase node appends to context_data
Contribution(kb_node) ==
    LET kb_config == kb_node.data
        source == Get(kb_config, "source", Null)
    IN
    IF Is(source, "text") /\ Truthy(Get(kb_config, "textContent", Null))
    THEN <<kb_config["textContent"]>>
    ELSE IF Is(source, "upload") THEN <<Str(UploadPlaceholder)>>
    ELSE IF Is(source, "url") THEN <<Str(UrlPlaceholder)>>
    ELSE <<>>

\* mutant: each contribution is put in front of the earlier ones
RECURSIVE ContextData_Reversed(_)
ContextData_Reversed(kb_nodes) ==
    IF kb_nodes = <<>> THEN <<>>
    ELSE ContextData_Reversed(Tail(kb_nodes)) \o Contribution(Head(kb_nodes))

\* for kb_node in knowledge_base_nodes: ... context_data.append(...)
RECURSIVE ContextData(_)
ContextData(kb_nodes) ==
    IF kb_nodes = <<>> THEN <<>>
    ELSE Contribution(Head(kb_nodes)) \o ContextData(Tail(kb_nodes))

\* sep.join(items), every item a str
RECURSIVE Join(_, _)
Join(sep, items) ==
    IF items = <<>> THEN ""
    ELSE IF Len(items) = 1 THEN Head(items).v
    ELSE Head(items).v \o sep \o Join(sep, Tail(items))

\* str(n) of a natural number
Digit(d) == SubSeq("0123456789", d + 1, d + 1)
RECURSIVE NatText(_)
NatText(n) == IF n < 10 THEN Digit(n) ELSE NatText(n \div 10) \o Digit(n % 10)

\* the text an f-string gives a JSON value
RECURSIVE Text(_)
Text(x) ==
    CASE x.kind = "null" -> "None"
      [] x.kind = "str"  -> x.v
      [] x.kind = "num"  ->
            IF x.v < 0 THEN "-" \o Text(Dec(0 - x.v))
            ELSE IF x.v % 10 = 0 THEN NatText(x.v \div 10)
            ELSE NatText(x.v \div 10) \o "." \o Digit(x.v % 10)
      [] x.kind = "list" -> "[...]"

\* type(x).__name__
TypeName(x) ==
    CASE x.kind = "null" -> "NoneType"
      [] x.kind = "str"  -> "str"
      [] x.kind = "num"  -> IF x.v % 10 = 0 THEN "int" ELSE "float"
      [] x.kind = "list" -> "list"

\* the first index (from 0) of an item of context_data that is no str, or -1
RECURSIVE FirstNonStr(_, _)
FirstNonStr(items, i) ==
    IF items = <<>> THEN -1
    ELSE IF Head(items).kind # "str" THEN i
    ELSE FirstNonStr(Tail(items), i + 1)

\* str(e) of the TypeError that "\n".join(context_data) raises
JoinError(items) ==
    LET i == FirstNonStr(items, 0) IN
    "sequence item " \o NatText(i) \o ": expected str instance, "
        \o TypeName(items[i + 1]) \o " found"

\* the demonstration response
AIResponse(query, model, temperature, combined_context) ==
    "Based on your query: \"" \o query \o "\"\n        \nUsing model: " \o Text(model)
    \o "\nTemperature: " \o Text(temperature) \o "\n        \nContext available: "
    \o (IF combined_context # "" THEN "Yes" ELSE "No")
    \o "\n\nThis is a demonstration response. In the full implementation, this would be "
    \o "generated by the configured AI model using the provided context and parameters."

\* json.dumps({"query": ..., "response": ..., "model": ..., "timestamp": ...}):
\* the object serialized, its keys in this order
JsonObject(query, ai_response, model) ==
    [json |-> <<"query", "response", "model", "timestamp">>,
     query |-> query, response |-> ai_response, model |-> model]

\* mutant: the html branch is the else branch
FormatResponse_HtmlElse(output_format, query, ai_response, model) ==
    IF Is(output_format, "markdown") THEN Str("# AI Response\n\n" \o ai_response)
    ELSE IF Is(output_format, "json")
         THEN [kind |-> "json", v |-> JsonObject(query, ai_response, model)]
    ELSE Str("<h1>AI Response</h1><p>" \o ai_response \o "</p>")

\* the formatted response: a string, or for json the serialized object
FormatResponse(output_format, query, ai_response, model) ==
    IF Is(output_format, "markdown") THEN Str("# AI Response\n\n" \o ai_response)
    ELSE IF Is(output_format, "json")
         THEN [kind |-> "json", v |-> JsonObject(query, ai_response, model)]
    ELSE IF Is(output_format, "html")
         THEN Str("<h1>AI Response</h1><p>" \o ai_response \o "</p>")
    ELSE Str(ai_response)

\* execution_status as first built
InitialStatus(execution_id) ==
    [execution_id |-> execution_id, status |-> "running", progress |-> 0,
     current_step |-> "Initializing workflow execution", result |-> None,
     error |-> None]

\* mutant: the update leaves the error out
Failed_NoError(st, message) == [st EXCEPT !.status = "failed"]

\* execution_status.update({"status": "failed", "error": message})
Failed(st, message) == [st EXCEPT !.status = "failed", !.error = Some(message)]

\* mutant: the update leaves the progress out
Step_Keep(st, p, step) == [st EXCEPT !.current_step = step]

\* execution_status.update({"progress": p, "current_step": step})
Step(st, p, step) == [st EXCEPT !.progress = p, !.current_step = step]

\* WorkflowExecutionResponse(**execution_status)
WorkflowExecutionResponse(st) == [http |-> 200, body |-> st]

\* the except branch: a fresh failed response carrying str(e)
ExecutionFailed(execution_id, message) ==
    [http |-> 200,
     body |-> [execution_id |-> execution_id, status |-> "failed", progress |-> 0,
               current_step |-> "Execution failed", result |-> None,
               error |-> Some(message)]]

\* mutant: the llmEngine check is made before the output check
StructureError_LLMFirst(user_query_nodes, llm_engine_nodes, output_nodes) ==
    IF user_query_nodes = <<>> THEN Some("No user query component found")
    ELSE IF llm_engine_nodes = <<>> THEN Some("No LLM engine component found")
    ELSE IF output_nodes = <<>> THEN Some("No output component found")
    ELSE None

\* the three structure checks, in the order the code makes them: the message of
\* the first that fails, or None
StructureError(user_query_nodes, llm_engine_nodes, output_nodes) ==
    IF user_query_nodes = <<>> THEN Some("No user query component found")
    ELSE IF output_nodes = <<>> THEN Some("No output component found")
    ELSE IF llm_engine_nodes = <<>> THEN Some("No LLM engine component found")
    ELSE None

\* mutant: the last llmEngine node configures the run
LLMConfig_Last(llm_engine_nodes) == llm_engine_nodes[Len(llm_engine_nodes)].data

\* llm_config = llm_engine_nodes[0].get("data", {})
LLMConfig(llm_engine_nodes) == llm_engine_nodes[1].data

\* mutant: the last output node formats the response
OutputConfig_Last(output_nodes) == output_nodes[Len(output_nodes)].data

\* output_config = output_nodes[0].get("data", {})
OutputConfig(output_nodes) == output_nodes[1].data

\* combined_context = "\n".join(context_data) if context_data else ""
CombinedContext(context_data) ==
    IF context_data # <<>> THEN Join("\n", context_data) ELSE ""

\* mutant: the llm_engines and output counts are taken from each other's group
\* (the parameters are the four groups of nodes)
ComponentsUsed_Swapped(user_query, knowledge_bases, llm_engines, output) ==
    [user_query |-> Len(user_query),
     knowledge_bases |-> Len(knowledge_bases),
     llm_engines |-> Len(output),
     output |-> Len(llm_engines)]

\* "components_used": {...}
ComponentsUsed(user_query, knowledge_bases, llm_engines, output) ==
    [user_query |-> Len(user_query),
     knowledge_bases |-> Len(knowledge_bases),
     llm_engines |-> Len(llm_engines),
     output |-> Len(output)]

\* mutant: every entry goes under "default"
SessionOf_Default(request) == "default"

\* request.session_id or "default"
SessionOf(request) ==
    IF Truthy(request.session_id) THEN request.session_id.v ELSE "default"

\* the run of execute_workflow_enhanced on a workflow that was found:
\* [response, log, context, ai, entry], entry being the ChatHistory row it committed
EnhancedRun(workflow_id, workflow, request, execution_id, commit_ok) ==
    LET nodes == workflow.nodes
        user_query_nodes == NodesOfType(nodes, "userQuery")
        knowledge_base_nodes == NodesOfType(nodes, "knowledgeBase")
        llm_engine_nodes == NodesOfType(nodes, "llmEngine")
        output_nodes == NodesOfType(nodes, "output")
        s0 == InitialStatus(execution_id)
        bad == StructureError(user_query_nodes, llm_engine_nodes, output_nodes)
    IN
    IF bad # None
    THEN [response |-> WorkflowExecutionResponse(Failed(s0, bad[1])),
          log |-> <<s0, Failed(s0, bad[1])>>, context |-> None, ai |-> None,
          entry |-> None]
    ELSE
    LET s20 == Step(s0, 20, "Processing user query")
        s40 == Step(s20, 40, "Retrieving knowledge")
        context_data == ContextData(knowledge_base_nodes)
        s70 == Step(s40, 70, "Generating AI response")
        llm_config == LLMConfig(llm_engine_nodes)
        model == Get(llm_config, "model", Str("gemini-1.5-flash"))
        temperature == Get(llm_config, "temperature", TemperatureDefault)
    IN
    IF FirstNonStr(context_data, 0) # -1
    THEN [response |-> ExecutionFailed(execution_id, JoinError(context_data)),
          log |-> <<s0, s20, s40, s70>>, context |-> None, ai |-> None,
          entry |-> None]
    ELSE
    LET combined_context == CombinedContext(context_data)
        ai_response == AIResponse(request.query, model, temperature, combined_context)
        s90 == Step(s70, 90, "Formatting output")
        output_config == OutputConfig(output_nodes)
        output_format == Get(output_config, "format", Str("text"))
        formatted_response ==
            FormatResponse(output_format, request.query, ai_response, model)
        s100 == [s90 EXCEPT
                    !.progress = 100,
                    !.current_step = "Execution completed",
                    !.status = "completed",
                    !.result = Some(
                        [response |-> formatted_response,
                         format |-> output_format,
                         execution_time |-> "2.3s",
                         components_used |->
                            ComponentsUsed(user_query_nodes, knowledge_base_nodes,
                                           llm_engine_nodes, output_nodes)])]
        chat_msg ==
            [session_id |-> SessionOf(request),
             role |-> "assistant",
             content |-> formatted_response,
             workflow_id |-> workflow_id,
             metadata |-> [execution_id |-> execution_id,
                           workflow_name |-> workflow.name,
                           execution_time |-> "2.3s"]]
    IN
    IF ~commit_ok
    THEN [response |-> ExecutionFailed(execution_id, "commit failed"),
          log |-> <<s0, s20, s40, s70, s90, s100>>,
          context |-> Some(combined_context), ai |-> Some(ai_response),
          entry |-> None]
    ELSE [response |-> WorkflowExecutionResponse(s100),
          log |-> <<s0, s20, s40, s70, s90, s100>>,
          context |-> Some(combined_context), ai |-> Some(ai_response),
          entry |-> Some(chat_msg)]

---------------------------------------------------------------------------
(* The executor of simple_backend.py *)

\* POST /api/workflows/{workflow_id}/execute-enhanced: no workflow is read; the
\* answer is what model.generate_content returned, or a 500 when it raised
simple_execute_workflow_enhanced(workflow_id, request, llm_text) ==
    IF llm_text = None
    THEN [http |-> 500, body |-> [detail |-> "generate_content failed"]]
    ELSE [http |-> 200,
          body |-> [execution_id |-> "exec_" \o workflow_id \o "_001",
                    status |-> "completed", progress |-> 100,
                    result |-> Some(llm_text[1])]]

---------------------------------------------------------------------------
(* The workflows that are stored and the requests that execute them *)

MaxNodes == 5

\* WorkflowNode
Node(id, type, data) ==
    [id |-> id, type |-> type, position |-> [x |-> 0, y |-> 0], data |-> data]

UQ == Node("q", "userQuery", EmptyMapping)
LLM == Node("l", "llmEngine", Mapping([model |-> Str("m1")]))
LLMDefault == Node("l0", "llmEngine", EmptyMapping)
LLMOther == Node("l2", "llmEngine", Mapping([model |-> Str("m2"), temperature |-> Dec(2)]))
OUT == Node("o", "output", Mapping([format |-> Str("json")]))
OUTDefault == Node("o0", "output", EmptyMapping)
OUTFormat(id, f) == Node(id, "output", Mapping([format |-> f]))
OUTMarkdown == OUTFormat("om", Str("markdown"))
OUTHtml == OUTFormat("oh", Str("html"))
OUTText == OUTFormat("ot", Str("text"))
OUTXml == OUTFormat("ox", Str("xml"))
OUTNull == OUTFormat("on", Null)
KBText(id, t) == Node(id, "knowledgeBase", Mapping([source |-> Str("text"), textContent |-> t]))
KBAlpha == KBText("ka", Str("alpha"))
KBBeta == KBText("kb", Str("beta"))
KBEmpty == KBText("ke", Str(""))
KBNoText == KBText("kn", Absent)
KBNumber == KBText("k5", Num(5))
KBUpload == Node("kup", "knowledgeBase", Mapping([source |-> Str("upload")]))
KBUrl == Node("kurl", "knowledgeBase", Mapping([source |-> Str("url"), url |-> Str("http://x")]))
KBOther == Node("kdb", "knowledgeBase", Mapping([source |-> Str("database")]))
KBNoSource == Node("k0", "knowledgeBase", EmptyMapping)
NOTE == Node("x", "note", EmptyMapping)

\* the nodes every short workflow is drawn from
CoreNodes == {UQ, LLM, OUT, KBAlpha, KBEmpty, KBUpload, KBUrl}

SeqsUpTo(S, n) == UNION {[1..k -> S] : k \in 0..n}

\* longer and odder workflows
LongWorkflows ==
    {<<UQ, KBAlpha, KBBeta, LLM, OUT>>,
     <<KBBeta, UQ, KBAlpha, OUT, LLM>>,
     <<UQ, KBAlpha, KBEmpty, KBBeta, LLM, OUT>>,
     <<UQ, KBAlpha, KBEmpty, LLM, OUT>>,
     <<UQ, KBEmpty, KBEmpty, LLM, OUT>>,
     <<UQ, KBUpload, KBAlpha, KBUrl, LLMDefault, OUTDefault>>,
     <<UQ, KBNoText, KBAlpha, KBOther, KBNoSource, KBBeta, LLM, OUT>>,
     <<UQ, KBAlpha, KBNumber, LLM, OUT>>,
     <<UQ, KBNumber, LLM, OUT>>,
     <<NOTE, UQ, LLMDefault, LLM, OUTDefault, OUT, UQ>>,
     <<NOTE, OUT, LLM>>, <<NOTE, UQ, LLM>>, <<NOTE, KBAlpha, UQ, OUT>>,
     <<UQ, LLM, LLMOther, OUT>>, <<UQ, LLMOther, LLM, OUT>>,
     <<UQ, LLMOther, OUT, LLMDefault>>, <<LLMDefault, UQ, OUTText, LLMOther>>,
     <<UQ, LLM, OUTMarkdown>>, <<UQ, KBAlpha, LLM, OUTHtml, OUT>>,
     <<UQ, LLM, OUTText>>, <<UQ, LLM, OUTXml>>, <<UQ, LLM, OUTNull>>,
     <<UQ, LLMOther, OUTMarkdown, OUTHtml>>, <<NOTE, UQ, NOTE, LLM, OUTXml, OUT>>}

NodeLists == SeqsUpTo(CoreNodes, MaxNodes) \cup LongWorkflows

WorkflowIds == {"w1"}
UnknownWorkflowIds == {"w0"}
\* the ids uuid4 can hand out to executions
ExecutionIds == {"e1"}
Queries == {"hi", ""}
SessionIds == {Null, Str("s1")}

NoExecution == [sent |-> FALSE]
NoExecutionResponse == [http |-> 0]

---------------------------------------------------------------------------
(* Document upload of main.py *)

MaxUploadSize == 10485760
DefaultChunkSize == 1000
DefaultChunkOverlap == 200

\* str.lower(), letter by letter
UpperLetters == "ABCDEFGHIJKLMNOPQRSTUVWXYZ"
LowerLetters == "abcdefghijklmnopqrstuvwxyz"
LowerChar(c) ==
    IF \E i \in 1..26 : SubSeq(UpperLetters, i, i) = c
    THEN LET i == CHOOSE i \in 1..26 : SubSeq(UpperLetters, i, i) = c
         IN SubSeq(LowerLetters, i, i)
    ELSE c
RECURSIVE Lower(_)
Lower(str) ==
    IF str = "" THEN "" ELSE LowerChar(SubSeq(str, 1, 1)) \o Lower(SubSeq(str, 2, Len(str)))

\* str.endswith(suffix)
EndsWith(str, suffix) ==
    Len(str) >= Len(suffix)
    /\ SubSeq(str, Len(str) - Len(suffix) + 1, Len(str)) = suffix

\* text[start:end], indexes from 0: a negative index counts from the end, and
\* both are brought into 0..len(text)
Slice(text, start, end) ==
    LET n == Len(text)
        index(i) == IF i < 0 THEN (IF i + n < 0 THEN 0 ELSE i + n)
                    ELSE IF i > n THEN n ELSE i
    IN  IF index(start) < index(end)
        THEN SubSeq(text, index(start) + 1, index(end))
        ELSE ""

\* the while loop of chunk_text, from start on
RECURSIVE ChunksFrom(_, _, _, _)
ChunksFrom(text, start, chunk_size, chunk_overlap) ==
    IF start < Len(text)
    THEN <<Slice(text, start, start + chunk_size)>>
         \o ChunksFrom(text, start + chunk_size - chunk_overlap, chunk_size, chunk_overlap)
    ELSE <<>>

\* chunk_text(text, chunk_size, chunk_overlap), chunk_overlap < chunk_size
chunk_text(text, chunk_size, chunk_overlap) ==
    IF Len(text) <= chunk_size THEN <<text>>
    ELSE ChunksFrom(text, 0, chunk_size, chunk_overlap)

\* mutant: the ids number the chunks and leave the document out
ChunkIds_Unkeyed(document_id, n) == [i \in 1..n |-> "chunk_" \o NatText(i - 1)]

\* chunk_ids = [f"{document_id}_chunk_{i}" for i in range(n)]
ChunkIds(document_id, n) == [i \in 1..n |-> document_id \o "_chunk_" \o NatText(i - 1)]

\* the entries collection.add writes for the chunks of a document
ChunkEntries(text_chunks, document_id, chunk_ids) ==
    [id \in {chunk_ids[i] : i \in 1..Len(chunk_ids)} |->
        LET i == CHOOSE i \in 1..Len(chunk_ids) : chunk_ids[i] = id
        IN [document |-> text_chunks[i],
            metadata |-> [document_id |-> document_id, chunk_index |-> i - 1]]]

\* extract_text_from_pdf: the stripped text of the pages, or None when fitz raises
extract_text_from_pdf(content) ==
    IF content.pdf THEN Some(Strip(content.text)) ELSE None

\* mutant: a file of the size limit is rejected
UploadRejection_AtLimit(file) ==
    IF ~EndsWith(Lower(file.filename), ".pdf")
    THEN Some(HTTPException(400, "Only PDF files are supported"))
    ELSE IF file.size >= MaxUploadSize
    THEN Some(HTTPException(400, "File size must be less than 10MB"))
    ELSE IF extract_text_from_pdf(file.content) = None
    THEN Some(HTTPException(400, "Failed to extract text from PDF"))
    ELSE IF Strip(extract_text_from_pdf(file.content)[1]) = ""
    THEN Some(HTTPException(400, "No text content found in PDF"))
    ELSE None

\* the checks upload_document makes before it creates the Document record: the
\* HTTPException of the first that fails, or None
UploadRejection(file) ==
    IF ~EndsWith(Lower(file.filename), ".pdf")
    THEN Some(HTTPException(400, "Only PDF files are supported"))
    ELSE IF file.size > MaxUploadSize
    THEN Some(HTTPException(400, "File size must be less than 10MB"))
    ELSE IF extract_text_from_pdf(file.content) = None
    THEN Some(HTTPException(400, "Failed to extract text from PDF"))
    ELSE IF Strip(extract_text_from_pdf(file.content)[1]) = ""
    THEN Some(HTTPException(400, "No text content found in PDF"))
    ELSE None

\* the files that are uploaded
Pdf(text) == [pdf |-> TRUE, text |-> text]
BrokenPdf == [pdf |-> FALSE, text |-> ""]
File(filename, size, content) ==
    [filename |-> filename, content_type |-> "application/pdf", size |-> size,
     content |-> content]
ShortText == "hello"
LongText == Repeat("a", 800) \o Repeat("b", 201)
LongerText == Repeat("c", 1000) \o Repeat("d", 900)
Files ==
    {File("a.pdf", 5, Pdf(ShortText)),
     File("B.PDF", MaxUploadSize, Pdf(LongText)),
     File("c.pdf", 1900, Pdf(" " \o LongerText \o "\n")),
     File("d.pdf", MaxUploadSize + 1, Pdf(ShortText)),
     File("e.txt", 5, Pdf(ShortText)),
     File("f.pdfx", MaxUploadSize + 1, Pdf(ShortText)),
     File("pdf", 0, Pdf("")),
     File("g.pdf", 7, BrokenPdf),
     File("h.pdf", 2, Pdf(" \n"))}

UploadRequests == {"u1", "u2"}
DeleteRequests == {"x1", "x2"}
NoDelete == [pc |-> "idle"]
NoCall == [pc |-> "idle"]
DocumentIds == {"d1", "d2"}
NoUpload == [pc |-> "idle"]

---------------------------------------------------------------------------
(* Workflow execution and chat of main.py, chat of simple_main.py *)

\* the outcomes of the embedding lookup: it raises, or returns these documents
SearchOutcomes ==
    {None, Some(<<>>), Some(<<"doc one">>),
     Some(<<"doc one", "doc two", "doc three", "doc four">>)}
\* the outcomes of the web search: no key, the search raises, no result, results
WebOutcomes == {"nokey", "raises", "empty", "results"}
\* the outcomes of the generation call: it raises, or returns a text
GenerationOutcomes == {None, Some("an answer")}

\* search_similar_content: [docs, calls]; a lookup that raises gives no documents
search_similar_content(query, outcome) ==
    [docs |-> IF outcome = None THEN <<>> ELSE outcome[1],
     calls |-> <<[to |-> "search", query |-> query, ok |-> outcome # None]>>]

\* search_web: [text, calls]; without a key no call is made
search_web(query, outcome) ==
    CASE outcome = "nokey" ->
            [text |-> "Web search not available - SerpAPI key not configured.",
             calls |-> <<>>]
      [] outcome = "raises" ->
            [text |-> "Web search error: search failed",
             calls |-> <<[to |-> "web", query |-> query, ok |-> FALSE]>>]
      [] outcome = "empty" ->
            [text |-> "No web search results found.",
             calls |-> <<[to |-> "web", query |-> query, ok |-> TRUE]>>]
      [] outcome = "results" ->
            [text |-> "Title: t\nSnippet: s",
             calls |-> <<[to |-> "web", query |-> query, ok |-> TRUE]>>]

NotConfiguredMessage ==
    "OpenAI API key not configured. Please add your API key to use AI features."

\* get_openai_response: [text, calls]; without an API key no call is made, and a
\* call that raises gives an apology that carries the message
get_openai_response(prompt, context, configured, outcome) ==
    IF ~configured
    THEN [text |-> Some(NotConfiguredMessage), calls |-> <<>>]
    ELSE IF outcome = None
    THEN [text |-> Some("Sorry, I encountered an error processing your request: "
                        \o "generation failed"),
          calls |-> <<[to |-> "openai", query |-> prompt, context |-> context,
                       ok |-> FALSE]>>]
    ELSE [text |-> outcome,
          calls |-> <<[to |-> "openai", query |-> prompt, context |-> context,
                       ok |-> TRUE]>>]

\* "\n\n".join([doc["content"] for doc in similar_docs[:3]]) if similar_docs
DocsContext(similar_docs) ==
    IF similar_docs = <<>> THEN ""
    ELSE LET first == SubSeq(similar_docs, 1, IF Len(similar_docs) < 3
                                              THEN Len(similar_docs) ELSE 3)
         IN Join("\n\n", [i \in 1..Len(first) |-> Str(first[i])])

\* the run of execute_workflow on a workflow that was found: [response, calls,
\* entries], entries being the ChatHistory rows it committed
WorkflowRun(workflow_id, query_request, session_id, env) ==
    LET query == query_request.query
        search == IF query_request.use_context
                  THEN search_similar_content(query, env.search)
                  ELSE [docs |-> <<>>, calls |-> <<>>]
        context == DocsContext(search.docs)
        web == IF query_request.use_web_search
               THEN search_web(query, env.web)
               ELSE [text |-> "", calls |-> <<>>]
        web_context == web.text
        full_context == IF web_context # ""
                        THEN context \o "\n\nWeb Search Results:\n" \o web_context
                        ELSE context
        generation == get_openai_response(query, full_context, env.configured,
                                          env.generation)
        all_calls == search.calls \o web.calls \o generation.calls
    IN
    IF generation.text = None
    THEN [response |-> [code |-> 500,
                        detail |-> "Failed to execute workflow: not configured"],
          calls |-> all_calls, entries |-> <<>>]
    ELSE
    LET response == generation.text[1]
        user_message ==
            [session_id |-> session_id, role |-> "user", content |-> Str(query),
             workflow_id |-> workflow_id,
             metadata |-> [use_context |-> query_request.use_context,
                           use_web_search |-> query_request.use_web_search]]
        assistant_message ==
            [session_id |-> session_id, role |-> "assistant", content |-> Str(response),
             workflow_id |-> workflow_id,
             metadata |-> [context_used |-> context # "",
                           web_search_used |-> query_request.use_web_search]]
    IN
    IF ~env.commit_ok
    THEN [response |-> [code |-> 500,
                        detail |-> "Failed to execute workflow: commit failed"],
          calls |-> all_calls, entries |-> <<>>]
    ELSE [response |-> [code |-> 200,
                        body |-> [session_id |-> session_id, query |-> query,
                                  response |-> response,
                                  context_used |-> context # "",
                                  web_search_used |-> query_request.use_web_search]],
          calls |-> all_calls, entries |-> <<user_message, assistant_message>>]

\* the run of chat of main.py: [response, calls, entries]
ChatRun(message, session_id, env) ==
    LET query == message.content
        search == search_similar_content(query, env.search)
        context == DocsContext(search.docs)
        generation == get_openai_response(query, context, env.configured, env.generation)
        all_calls == search.calls \o generation.calls
    IN
    IF generation.text = None
    THEN [response |-> [code |-> 500, detail |-> "Chat error: not configured"],
          calls |-> all_calls, entries |-> <<>>]
    ELSE
    LET response == generation.text[1]
        user_msg ==
            [session_id |-> session_id, role |-> "user", content |-> Str(query),
             workflow_id |-> "", metadata |-> message.workflow_context]
        assistant_msg ==
            [session_id |-> session_id, role |-> "assistant", content |-> Str(response),
             workflow_id |-> "", metadata |-> [context_used |-> context # ""]]
    IN
    IF ~env.commit_ok
    THEN [response |-> [code |-> 500, detail |-> "Chat error: commit failed"],
          calls |-> all_calls, entries |-> <<>>]
    ELSE [response |-> [code |-> 200,
                        body |-> [role |-> "assistant", content |-> response,
                                  session_id |-> session_id]],
          calls |-> all_calls, entries |-> <<user_msg, assistant_msg>>]

\* chat of simple_main.py: without a model the HTTPException it raises is caught
\* by its own except branch and raised again as a 500
simple_main_chat(request, env) ==
    IF ~env.configured
    THEN [response |-> [code |-> 500,
                        detail |-> "Chat processing failed: 500: Gemini AI not configured"],
          calls |-> <<>>]
    ELSE IF env.generation = None
    THEN [response |-> [code |-> 500,
                        detail |-> "Chat processing failed: generation failed"],
          calls |-> <<[to |-> "gemini", query |-> request.message, context |-> "",
                       ok |-> FALSE]>>]
    ELSE [response |-> [code |-> 200,
                        body |-> [response |-> env.generation[1], status |-> "success"]],
          calls |-> <<[to |-> "gemini", query |-> request.message, context |-> "",
                       ok |-> TRUE]>>]

\* what the services do during one request: all is well, or one or two of them
\* fail
Healthy ==
    [configured |-> TRUE, search |-> Some(<<"doc one", "doc two", "doc three", "doc four">>),
     web |-> "results", generation |-> Some("an answer"), commit_ok |-> TRUE]
Environments ==
    {Healthy,
     [Healthy EXCEPT !.search = None],
     [Healthy EXCEPT !.search = Some(<<>>)],
     [Healthy EXCEPT !.search = Some(<<"doc one">>), !.web = "empty"],
     [Healthy EXCEPT !.web = "raises"],
     [Healthy EXCEPT !.web = "nokey"],
     [Healthy EXCEPT !.generation = None],
     [Healthy EXCEPT !.search = None, !.generation = None],
     [Healthy EXCEPT !.configured = FALSE],
     [Healthy EXCEPT !.configured = FALSE, !.search = None],
     [Healthy EXCEPT !.commit_ok = FALSE],
     [Healthy EXCEPT !.search = None, !.commit_ok = FALSE]}

MaxChats == 2
ChatSessionIds == {"c1", "c2", "c3"}
NoChat == [sent |-> FALSE]
NoChatResponse == [code |-> 0]

---------------------------------------------------------------------------
(* The state machine *)

UploadVars == <<documents, collection, uploads>>
ChatVars == <<creq, cresp, calls>>
OtherVars == <<listed, deletes, ct>>

ExecutorVars ==
    <<workflows, chat_history, used_ids, xreq, xresp, xlog, xcontext, xai, llm_calls,
      returned_ids, served>>

ExecutorInit ==
    /\ workflows = <<>>
    /\ chat_history = <<>>
    /\ used_ids = {}
    /\ xreq = NoExecution
    /\ xresp = NoExecutionResponse
    /\ xlog = <<>>
    /\ xcontext = None
    /\ xai = None
    /\ llm_calls = <<>>
    /\ returned_ids = <<>>
    /\ served = 0

Backends == {"main", "simple"}

OtherInit ==
    /\ listed = <<>>
    /\ deletes = [r \in DeleteRequests |-> NoDelete]
    /\ ct = NoCall

ChatInit ==
    /\ creq = NoChat
    /\ cresp = NoChatResponse
    /\ calls = <<>>

UploadInit ==
    /\ documents = <<>>
    /\ collection = <<>>
    /\ uploads = [u \in UploadRequests |-> NoUpload]

Init ==
    /\ backend \in Backends
    /\ vreq = NoRequest
    /\ vresp = NoResponse
    /\ ExecutorInit
    /\ UploadInit
    /\ ChatInit
    /\ OtherInit

\* a validation request has arrived and is not answered yet
InitValidator ==
    /\ backend \in Backends
    /\ \E r \in ValidationRequests :
          vreq = [component_type |-> r[1], configuration |-> r[2], sent |-> TRUE]
    /\ vresp = NoResponse
    /\ ExecutorInit
    /\ UploadInit
    /\ ChatInit
    /\ OtherInit

\* main.py: POST /api/components/validate
ValidateComponent ==
    /\ backend = "main"
    /\ vreq.sent /\ vresp = NoResponse
    /\ vresp' = validate_component(vreq.component_type, vreq.configuration)
    /\ UNCHANGED <<OtherVars, backend, vreq, ExecutorVars, UploadVars, ChatVars>>

\* simple_backend.py: POST /api/components/validate
SimpleValidateComponent ==
    /\ backend = "simple"
    /\ vreq.sent /\ vresp = NoResponse
    /\ vresp' = simple_validate_component(vreq.component_type, vreq.configuration)
    /\ UNCHANGED <<OtherVars, backend, vreq, ExecutorVars, UploadVars, ChatVars>>

\* mutant: a row replaces the rows its session already has
AddRows_Merge(history, rows) == SelectSeq(history, LAMBDA r : \A j \in DOMAIN rows : rows[j].session_id # r.session_id) \o rows

\* db.add(row) for each of the rows, then db.commit(): the table afterwards
AddRows(history, rows) == history \o rows

\* main.py: POST /api/workflows, the node list one of lists
CreateWorkflow(id, lists) ==
    /\ backend = "main"
    /\ id \notin DOMAIN workflows
    /\ \E nodes \in lists :
          workflows' = workflows @@ (id :> [name |-> "wf", nodes |-> nodes, edges |-> <<>>])
    /\ UNCHANGED <<OtherVars, UploadVars, ChatVars, backend, vreq, vresp, chat_history, used_ids, xreq, xresp, xlog,
                   xcontext, xai, llm_calls, returned_ids, served>>

\* WorkflowEdge
Edge(source, target) ==
    [id |-> source \o "-" \o target, source |-> source, target |-> target,
     type |-> "smoothstep"]

\* the edge lists a request may carry for the nodes: none, the chain from each
\* node to the next, the chain backwards, and one edge from a node that is not there
EdgeLists(nodes) ==
    {<<>>,
     [i \in 1..(Len(nodes) - 1) |-> Edge(nodes[i].id, nodes[i + 1].id)],
     [i \in 1..(Len(nodes) - 1) |-> Edge(nodes[i + 1].id, nodes[i].id)],
     <<Edge("gone", "q")>>}

Positions == {[x |-> 0, y |-> 0], [x |-> -5, y |-> 3]}

GraphNodeLists ==
    {<<UQ, OUT>>, <<UQ, LLM, LLMOther, OUTHtml>>, <<UQ, KBAlpha, KBBeta, LLMOther, OUT>>}

\* main.py: POST /api/workflows, with the positions and the edges of the request
CreateWorkflowGraph(id) ==
    /\ backend = "main"
    /\ id \notin DOMAIN workflows
    /\ \E nodes \in GraphNodeLists :
       \E place \in [DOMAIN nodes -> Positions], edges \in EdgeLists(nodes) :
          workflows' = workflows @@
              (id :> [name |-> "wf",
                      nodes |-> [i \in DOMAIN nodes |->
                                    [nodes[i] EXCEPT !.position = place[i]]],
                      edges |-> edges])
    /\ UNCHANGED <<OtherVars, UploadVars, ChatVars, backend, vreq, vresp, chat_history,
                   used_ids, xreq, xresp, xlog, xcontext, xai, llm_calls, returned_ids,
                   served>>

\* main.py: POST /api/workflows/{workflow_id}/execute-enhanced, the workflow found
ExecuteEnhanced(workflow_id, query, session_id, execution_id, commit_ok) ==
    /\ backend = "main"
    /\ workflow_id \in DOMAIN workflows
    /\ execution_id \notin used_ids
    /\ \E run \in {EnhancedRun(workflow_id, workflows[workflow_id],
                                [workflow_id |-> workflow_id, query |-> query,
                                 session_id |-> session_id],
                                execution_id, commit_ok)} :
          /\ xreq' = [sent |-> TRUE, workflow_id |-> workflow_id, query |-> query,
                      session_id |-> session_id, fault |-> ~commit_ok]
          /\ xresp' = run.response
          /\ xlog' = run.log
          /\ xcontext' = run.context
          /\ xai' = run.ai
          /\ llm_calls' = <<>>
          /\ chat_history' = AddRows(chat_history, run.entry)
    /\ used_ids' = used_ids \cup {execution_id}
    /\ returned_ids' = Append(returned_ids, execution_id)
    /\ served' = served + 1
    /\ UNCHANGED <<OtherVars, UploadVars, ChatVars, backend, vreq, vresp, workflows>>

\* main.py: the same request for a workflow id the table does not hold: the 404
\* is raised inside the try, and the except branch, reading execution_id before
\* any assignment to it, raises in turn
ExecuteEnhancedNotFound(workflow_id, query, session_id) ==
    /\ backend = "main"
    /\ workflow_id \notin DOMAIN workflows
    /\ xreq' = [sent |-> TRUE, workflow_id |-> workflow_id, query |-> query,
                session_id |-> session_id, fault |-> FALSE]
    /\ xresp' = [http |-> 500, body |-> [detail |-> "Internal Server Error"]]
    /\ xlog' = <<>>
    /\ xcontext' = None
    /\ xai' = None
    /\ llm_calls' = <<>>
    /\ served' = served + 1
    /\ UNCHANGED <<OtherVars, UploadVars, ChatVars, backend, vreq, vresp, workflows, chat_history, used_ids, returned_ids>>

\* simple_backend.py: POST /api/workflows/{workflow_id}/execute-enhanced
SimpleExecuteEnhanced(workflow_id, query, session_id, llm_text) ==
    /\ backend = "simple"
    /\ xreq' = [sent |-> TRUE, workflow_id |-> workflow_id, query |-> query,
                session_id |-> session_id, fault |-> (llm_text = None)]
    /\ \E response \in {simple_execute_workflow_enhanced(
                             workflow_id,
                             [workflow_id |-> workflow_id, query |-> query,
                              session_id |-> session_id],
                             llm_text)} :
          /\ xresp' = response
          /\ returned_ids' = IF response.http = 200
                             THEN Append(returned_ids, response.body.execution_id)
                             ELSE returned_ids
    /\ xlog' = <<>>
    /\ xcontext' = None
    /\ xai' = llm_text
    /\ llm_calls' = <<"Execute this workflow query: " \o query>>
    /\ served' = served + 1
    /\ UNCHANGED <<OtherVars, UploadVars, ChatVars, backend, vreq, vresp, workflows, chat_history, used_ids>>

\* the execute-enhanced requests for the workflow ids wids, uuid4 drawing from
\* eids, while fewer than cap have been answered
ExecuteIn(cap, wids, eids) ==
    /\ served < cap
    /\ \E w \in wids, q \in Queries, s \in SessionIds :
        \/ \E e \in eids, ok \in BOOLEAN : ExecuteEnhanced(w, q, s, e, ok)
        \/ ExecuteEnhancedNotFound(w, q, s)
        \/ \E t \in {None, Some("generated text")} : SimpleExecuteEnhanced(w, q, s, t)

Execute(cap) == ExecuteIn(cap, WorkflowIds \cup UnknownWorkflowIds, ExecutionIds)

\* the ids uuid4 can give a new Document: those no upload was given before
FreshDocumentIds ==
    {id \in DocumentIds \ DOMAIN documents :
        \A v \in UploadRequests :
            "document_id" \in DOMAIN uploads[v] => uploads[v].document_id # id}

\* main.py: POST /api/documents/upload, up to the commit of the Document record.
\* A file that fails a check is answered with the HTTPException; for the others
\* the record is added under a fresh id and the request goes on to the embeddings
\* (the stored filename, the name after one more uuid4, is left out of the record).
UploadStart(u, file) ==
    /\ backend = "main"
    /\ uploads[u].pc = "idle"
    /\ IF UploadRejection(file) # None
       THEN /\ uploads' = [uploads EXCEPT ![u] =
                              [pc |-> "done", file |-> file,
                               response |-> [code |-> UploadRejection(file)[1].code,
                                             detail |-> UploadRejection(file)[1].detail]]]
            /\ UNCHANGED documents
       ELSE \E id \in FreshDocumentIds :
              LET text_content == extract_text_from_pdf(file.content)[1] IN
              /\ documents' = documents @@
                    (id :> [original_filename |-> file.filename,
                            content_type |-> file.content_type,
                            size |-> file.size,
                            content |-> text_content,
                            embedding_ids |-> None,
                            processed |-> FALSE])
              /\ uploads' = [uploads EXCEPT ![u] =
                                [pc |-> "record", file |-> file, document_id |-> id,
                                 text_chunks |-> chunk_text(text_content, DefaultChunkSize,
                                                            DefaultChunkOverlap)]]
    /\ UNCHANGED <<OtherVars, backend, vreq, vresp, ExecutorVars, ChatVars, collection>>

\* store_embeddings: the chunks are added to the collection under their ids in
\* one call; when the embedding model or the collection raises (the collection
\* refuses an id it holds), the request ends with a 500 and the record stays
UploadStore(u, ok) ==
    /\ uploads[u].pc = "record"
    /\ LET up == uploads[u]
           chunk_ids == ChunkIds(up.document_id, Len(up.text_chunks))
           held == \E i \in 1..Len(chunk_ids) : chunk_ids[i] \in DOMAIN collection
       IN IF ok /\ ~held
          THEN /\ collection' = collection
                      @@ ChunkEntries(up.text_chunks, up.document_id, chunk_ids)
               /\ uploads' = [uploads EXCEPT ![u] =
                                 [pc |-> "embedded", file |-> up.file,
                                  document_id |-> up.document_id,
                                  text_chunks |-> up.text_chunks,
                                  embedding_ids |-> chunk_ids]]
          ELSE /\ uploads' = [uploads EXCEPT ![u] =
                                 [pc |-> "done", file |-> up.file,
                                  document_id |-> up.document_id,
                                  text_chunks |-> up.text_chunks,
                                  response |-> [code |-> 500,
                                                detail |-> "Failed to store embeddings"]]]
               /\ UNCHANGED collection
    /\ UNCHANGED <<OtherVars, backend, vreq, vresp, ExecutorVars, ChatVars, documents>>

\* the record gets its embedding ids and is marked processed; the request is
\* answered. When the record was deleted meanwhile, the commit of the update
\* raises and the request ends with a 500
UploadFinish(u) ==
    /\ uploads[u].pc = "embedded"
    /\ LET up == uploads[u] IN
       IF up.document_id \in DOMAIN documents
       THEN
       /\ documents' = [documents EXCEPT ![up.document_id] =
                           [@ EXCEPT !.embedding_ids = Some(up.embedding_ids),
                                     !.processed = TRUE]]
       /\ uploads' = [uploads EXCEPT ![u] =
                         [pc |-> "done", file |-> up.file,
                          document_id |-> up.document_id,
                          text_chunks |-> up.text_chunks,
                          embedding_ids |-> up.embedding_ids,
                          response |-> [code |-> 200,
                                        body |-> [id |-> up.document_id,
                                                  filename |-> up.file.filename,
                                                  size |-> up.file.size,
                                                  chunks |-> Len(up.text_chunks),
                                                  processed |-> TRUE]]]]
       ELSE
       /\ uploads' = [uploads EXCEPT ![u] =
                         [pc |-> "done", file |-> up.file,
                          document_id |-> up.document_id,
                          text_chunks |-> up.text_chunks,
                          response |-> [code |-> 500,
                                        detail |-> "Failed to upload document"]]]
       /\ UNCHANGED documents
    /\ UNCHANGED <<OtherVars, backend, vreq, vresp, ExecutorVars, ChatVars, collection>>

\* main.py: DELETE /api/documents/{document_id}, the query: the record as it is
\* read, or the 404
DeleteStart(x, document_id) ==
    /\ backend = "main"
    /\ deletes[x].pc = "idle"
    /\ deletes' = [deletes EXCEPT ![x] =
                      IF document_id \in DOMAIN documents
                      THEN [pc |-> "found", document_id |-> document_id,
                            document |-> documents[document_id]]
                      ELSE [pc |-> "done", document_id |-> document_id,
                            response |-> [code |-> 404,
                                          detail |-> "Document not found"]]]
    /\ UNCHANGED <<listed, ct, backend, vreq, vresp, ExecutorVars, ChatVars, UploadVars>>

\* collection.delete(ids=document.embedding_ids) when the record read has
\* embedding ids; when it raises, a warning is logged and the request goes on
DeleteEmbeddings(x, ok) ==
    /\ deletes[x].pc = "found"
    /\ LET embedding_ids == deletes[x].document.embedding_ids IN
       collection' =
           IF embedding_ids # None /\ embedding_ids[1] # <<>> /\ ok
           THEN [id \in DOMAIN collection
                        \ {embedding_ids[1][i] : i \in DOMAIN embedding_ids[1]}
                    |-> collection[id]]
           ELSE collection
    /\ deletes' = [deletes EXCEPT ![x].pc = "unindexed"]
    /\ UNCHANGED <<listed, ct, backend, vreq, vresp, ExecutorVars, ChatVars, documents,
                   uploads>>

\* db.delete(document) and db.commit(): the record is removed and the request
\* answered; when the commit raises (the database fails, or the record is gone
\* already), the request ends with a 500 and the table is as it was
DeleteRecord(x, ok) ==
    /\ deletes[x].pc = "unindexed"
    /\ LET id == deletes[x].document_id IN
       IF ok /\ id \in DOMAIN documents
       THEN /\ documents' = [d \in DOMAIN documents \ {id} |-> documents[d]]
            /\ deletes' = [deletes EXCEPT ![x] =
                              [pc |-> "done", document_id |-> id,
                               response |-> [code |-> 200,
                                             message |-> "Document deleted successfully"]]]
       ELSE /\ deletes' = [deletes EXCEPT ![x] =
                              [pc |-> "done", document_id |-> id,
                               response |-> [code |-> 500,
                                             detail |-> "Failed to delete document"]]]
            /\ UNCHANGED documents
    /\ UNCHANGED <<listed, ct, backend, vreq, vresp, ExecutorVars, ChatVars, collection,
                   uploads>>

\* main.py: POST /api/workflows/{workflow_id}/execute
ExecuteWorkflow(workflow_id, query, use_context, use_web_search, session_id, env) ==
    /\ backend = "main"
    /\ \A i \in DOMAIN chat_history : chat_history[i].session_id # session_id
    /\ creq' = [sent |-> TRUE, endpoint |-> "execute", workflow_id |-> workflow_id,
                query |-> query, use_context |-> use_context,
                use_web_search |-> use_web_search, env |-> env]
    /\ IF workflow_id \notin DOMAIN workflows
       THEN /\ cresp' = [code |-> 404, detail |-> "Workflow not found"]
            /\ calls' = <<>>
            /\ UNCHANGED chat_history
       ELSE \E run \in {WorkflowRun(workflow_id,
                                    [query |-> query, use_context |-> use_context,
                                     use_web_search |-> use_web_search],
                                    session_id, env)} :
               /\ cresp' = run.response
               /\ calls' = run.calls
               /\ chat_history' = AddRows(chat_history, run.entries)
    /\ served' = served + 1
    /\ UNCHANGED <<OtherVars, backend, vreq, vresp, UploadVars, workflows, used_ids, xreq, xresp, xlog,
                   xcontext, xai, llm_calls, returned_ids>>

\* main.py: POST /api/chat
Chat(content, session_id, env) ==
    /\ backend = "main"
    /\ \A i \in DOMAIN chat_history : chat_history[i].session_id # session_id
    /\ creq' = [sent |-> TRUE, endpoint |-> "chat", query |-> content, env |-> env]
    /\ \E run \in {ChatRun([role |-> "user", content |-> content,
                            workflow_context |-> Null], session_id, env)} :
          /\ cresp' = run.response
          /\ calls' = run.calls
          /\ chat_history' = AddRows(chat_history, run.entries)
    /\ served' = served + 1
    /\ UNCHANGED <<OtherVars, backend, vreq, vresp, UploadVars, workflows, used_ids, xreq, xresp, xlog,
                   xcontext, xai, llm_calls, returned_ids>>

\* the bodies POST /chat is sent: a JSON object with a question, without one,
\* with an empty one, with null for it, and a body json.loads rejects (None)
LegacyBodies ==
    {Some(Mapping([question |-> Str("hi")])), Some(EmptyMapping),
     Some(Mapping([question |-> Str("")])), Some(Mapping([question |-> Null])), None}

\* str(e) of HTTPException(400, "Question is required"), which depends on the
\* version of the framework installed
RejectionTexts == {"400: Question is required", ""}

\* main.py: POST /chat. Every exception raised in the try, the HTTPException for
\* a question that is missing or empty included, is caught by the except branch
\* and raised again as a 500 carrying str(e)
LegacyChat(body, session_id, env) ==
    /\ backend = "main"
    /\ \A i \in DOMAIN chat_history : chat_history[i].session_id # session_id
    /\ creq' = [sent |-> TRUE, endpoint |-> "legacy", body |-> body, env |-> env]
    /\ IF body = None
       THEN /\ cresp' = [code |-> 500, detail |-> "Expecting value"]
            /\ calls' = <<>>
            /\ UNCHANGED chat_history
       ELSE LET question == Get(body[1], "question", Str("")) IN
            IF ~Truthy(question)
            THEN /\ \E text \in RejectionTexts :
                       cresp' = [code |-> 500, detail |-> text]
                 /\ calls' = <<>>
                 /\ UNCHANGED chat_history
            ELSE \E run \in {ChatRun([role |-> "user", content |-> question.v,
                                      workflow_context |-> Null], session_id, env)} :
                    /\ cresp' =
                          IF run.response.code = 200
                          THEN [code |-> 200,
                                body |-> <<[role |-> "user", content |-> question.v],
                                           [role |-> "assistant",
                                            content |-> run.response.body.content]>>]
                          ELSE [code |-> 500, detail |-> run.response.detail]
                    /\ calls' = run.calls
                    /\ chat_history' = AddRows(chat_history, run.entries)
    /\ served' = served + 1
    /\ UNCHANGED <<OtherVars, backend, vreq, vresp, UploadVars, workflows, used_ids, xreq,
                   xresp, xlog, xcontext, xai, llm_calls, returned_ids>>

\* simple_main.py: POST /api/chat
SimpleMainChat(content, env) ==
    /\ backend = "simple_main"
    /\ creq' = [sent |-> TRUE, endpoint |-> "chat", query |-> content, env |-> env]
    /\ \E run \in {simple_main_chat([message |-> content], env)} :
          /\ cresp' = run.response
          /\ calls' = run.calls
    /\ served' = served + 1
    /\ UNCHANGED <<OtherVars, backend, vreq, vresp, UploadVars, workflows, chat_history, used_ids, xreq,
                   xresp, xlog, xcontext, xai, llm_calls, returned_ids>>

\* main.py: the registry GET /api/components/types builds and returns, each type
\* with its name, its maxInstances and the fields of its configSchema
get_component_types ==
    [userQuery     |-> [name |-> "User Query", maxInstances |-> Some(1),
                        configSchema |-> <<"query", "context", "priority">>],
     knowledgeBase |-> [name |-> "Knowledge Base", maxInstances |-> None,
                        configSchema |-> <<"source", "documents", "url", "textContent",
                                           "chunkSize", "overlap">>],
     llmEngine     |-> [name |-> "LLM Engine", maxInstances |-> None,
                        configSchema |-> <<"model", "temperature", "maxTokens",
                                           "systemPrompt", "useContext",
                                           "streamResponse">>],
     output        |-> [name |-> "Output", maxInstances |-> Some(1),
                        configSchema |-> <<"format", "destination", "filename", "email",
                                           "apiEndpoint", "includeMetadata",
                                           "prettify">>]]

\* simple_backend.py: the names and maxInstances of COMPONENT_TYPES
SimpleNames ==
    [userquery |-> "User Query", knowledgebase |-> "Knowledge Base",
     llmengine |-> "LLM Engine", output |-> "Output"]

SimpleMaxInstances ==
    [userquery |-> 1, knowledgebase |-> 3, llmengine |-> 1, output |-> 1]

\* simple_backend.py: the registry GET /api/components/types returns, the global
\* COMPONENT_TYPES, which no handler assigns to
simple_get_component_types ==
    [t \in DOMAIN COMPONENT_TYPES |->
        [name |-> SimpleNames[t], maxInstances |-> Some(SimpleMaxInstances[t]),
         configSchema |-> COMPONENT_TYPES[t]]]

\* how many times the registry is asked for
MaxLists == 2

\* main.py: GET /api/components/types
GetComponentTypes_Counting ==
    /\ backend = "main"
    /\ Len(listed) < MaxLists
    /\ listed' = Append(listed, get_component_types)
    /\ served' = served + 1
    /\ UNCHANGED <<deletes, ct, backend, vreq, vresp, workflows, chat_history, used_ids,
                   xreq, xresp, xlog, xcontext, xai, llm_calls, returned_ids,
                   UploadVars, ChatVars>>

GetComponentTypes ==
    /\ backend = "main"
    /\ Len(listed) < MaxLists
    /\ listed' = Append(listed, get_component_types)
    /\ UNCHANGED <<deletes, ct, backend, vreq, vresp, ExecutorVars, UploadVars, ChatVars>>

\* simple_backend.py: GET /api/components/types
SimpleGetComponentTypes ==
    /\ backend = "simple"
    /\ Len(listed) < MaxLists
    /\ listed' = Append(listed, simple_get_component_types)
    /\ UNCHANGED <<deletes, ct, backend, vreq, vresp, ExecutorVars, UploadVars, ChatVars>>

NextValidator == ValidateComponent \/ SimpleValidateComponent

\* any workflow is stored, and one execute-enhanced request is answered
Next ==
    \/ \E id \in WorkflowIds : CreateWorkflow(id, NodeLists)
    \/ Execute(1)

\* the executors and the workflow table
Spec == Init /\ [][Next]_vars

\* a few workflows, and several execute-enhanced requests one after the other
MaxRuns == 2
RunWorkflowIds == {"w1", "w2"}
RunExecutionIds == {"e1", "e2", "e3", "e4"}
RunNodeLists ==
    {<<>>, <<UQ, OUT>>, <<UQ, LLM, OUT>>, <<UQ, KBAlpha, LLMOther, OUTText>>,
     <<UQ, KBNumber, LLM, OUT>>}

NextRuns ==
    \/ \E id \in RunWorkflowIds : CreateWorkflow(id, RunNodeLists)
    \/ ExecuteIn(MaxRuns, RunWorkflowIds \cup UnknownWorkflowIds, RunExecutionIds)

SpecRuns == Init /\ [][NextRuns]_vars

\* workflows with edges and positions, and one execute-enhanced request
NextGraph ==
    \/ \E id \in WorkflowIds : CreateWorkflowGraph(id)
    \/ Execute(1)

SpecGraph == Init /\ [][NextGraph]_vars

\* two upload requests, their steps interleaved in every order
InitUpload ==
    /\ backend = "main"
    /\ vreq = NoRequest
    /\ vresp = NoResponse
    /\ ExecutorInit
    /\ UploadInit
    /\ ChatInit
    /\ OtherInit

NextUpload ==
    \E u \in UploadRequests :
        \/ \E file \in Files : UploadStart(u, file)
        \/ \E ok \in BOOLEAN : UploadStore(u, ok)
        \/ UploadFinish(u)

SpecUpload == InitUpload /\ [][NextUpload]_vars

\* uploads and deletes, their steps interleaved in every order
DocumentFiles ==
    {File("a.pdf", 5, Pdf(ShortText)),
     File("B.PDF", MaxUploadSize, Pdf(LongText)),
     File("e.txt", 5, Pdf(ShortText))}

NextDocuments ==
    \/ \E u \in UploadRequests :
          \/ \E file \in DocumentFiles : UploadStart(u, file)
          \/ \E ok \in BOOLEAN : UploadStore(u, ok)
          \/ UploadFinish(u)
    \/ \E x \in DeleteRequests :
          \/ \E id \in DocumentIds : DeleteStart(x, id)
          \/ \E ok \in BOOLEAN : DeleteEmbeddings(x, ok)
          \/ \E ok \in BOOLEAN : DeleteRecord(x, ok)

SpecDocuments == InitUpload /\ [][NextDocuments]_vars

\* execution and chat requests, one after the other
ChatBackends == {"main", "simple_main"}

InitChat ==
    /\ backend \in ChatBackends
    /\ vreq = NoRequest
    /\ vresp = NoResponse
    /\ ExecutorInit
    /\ UploadInit
    /\ ChatInit
    /\ OtherInit

NextChat ==
    \/ \E id \in WorkflowIds : CreateWorkflow(id, {<<UQ, LLM, OUT>>})
    \/ /\ served < MaxChats
       /\ \E q \in {"hi"}, env \in Environments :
            \/ \E w \in WorkflowIds \cup UnknownWorkflowIds, c, ws \in BOOLEAN,
                   s \in ChatSessionIds : ExecuteWorkflow(w, q, c, ws, s, env)
            \/ \E s \in ChatSessionIds : Chat(q, s, env)
            \/ SimpleMainChat(q, env)

SpecChat == InitChat /\ [][NextChat]_vars

\* execute, execute-enhanced and chat requests, one after the other
HistoryBackends == {"main", "simple", "simple_main"}
HistoryNodeLists == {<<UQ, OUT>>, <<UQ, LLM, OUT>>, <<UQ, KBNumber, LLM, OUT>>}
HistoryEnvironments ==
    {Healthy, [Healthy EXCEPT !.generation = None], [Healthy EXCEPT !.commit_ok = FALSE]}
HistoryExecutionIds == {"e1", "e2", "e3"}

InitHistory ==
    /\ backend \in HistoryBackends
    /\ vreq = NoRequest
    /\ vresp = NoResponse
    /\ ExecutorInit
    /\ UploadInit
    /\ ChatInit
    /\ OtherInit

NextHistory ==
    \/ \E id \in WorkflowIds : CreateWorkflow(id, HistoryNodeLists)
    \/ ExecuteIn(MaxChats, WorkflowIds \cup UnknownWorkflowIds, HistoryExecutionIds)
    \/ /\ served < MaxChats
       /\ \E q \in {"hi"}, env \in HistoryEnvironments :
            \/ \E w \in WorkflowIds \cup UnknownWorkflowIds, c \in BOOLEAN,
                   s \in ChatSessionIds : ExecuteWorkflow(w, q, c, FALSE, s, env)
            \/ \E s \in ChatSessionIds : Chat(q, s, env)
            \/ SimpleMainChat(q, env)

SpecHistory == InitHistory /\ [][NextHistory]_vars

\* the texts, chunk sizes and overlaps chunk_text is called with
MaxTextLen == 6
MaxChunkSize == 4
ChunkTexts == {SubSeq("abcdefghijklmnop", 1, n) : n \in 0..MaxTextLen}
ChunkSizes == 1..MaxChunkSize
ChunkOverlaps == 0..MaxChunkSize

\* the loop is followed for one iteration more than a text has characters
MaxIterations == MaxTextLen + 1

\* chunk_text is entered: a text no longer than chunk_size is returned whole,
\* otherwise the loop begins with no chunk and start = 0
ChunkTextCall(text, chunk_size, chunk_overlap) ==
    /\ ct.pc = "idle"
    /\ ct' = IF Len(text) <= chunk_size
             THEN [pc |-> "returned", text |-> text, chunk_size |-> chunk_size,
                   chunk_overlap |-> chunk_overlap, result |-> <<text>>]
             ELSE [pc |-> "loop", text |-> text, chunk_size |-> chunk_size,
                   chunk_overlap |-> chunk_overlap, start |-> 0, chunks |-> <<>>]
    /\ UNCHANGED <<listed, deletes, backend, vreq, vresp, ExecutorVars, UploadVars,
                   ChatVars>>

\* one iteration of the while loop
ChunkTextLoop ==
    /\ ct.pc = "loop"
    /\ ct.start < Len(ct.text)
    /\ Len(ct.chunks) < MaxIterations
    /\ LET end == ct.start + ct.chunk_size
           chunk == Slice(ct.text, ct.start, end)
       IN ct' = [ct EXCEPT !.chunks = Append(@, chunk),
                           !.start = end - ct.chunk_overlap]
    /\ UNCHANGED <<listed, deletes, backend, vreq, vresp, ExecutorVars, UploadVars,
                   ChatVars>>

\* the loop condition fails: return chunks
ChunkTextReturn ==
    /\ ct.pc = "loop"
    /\ ~(ct.start < Len(ct.text))
    /\ ct' = [pc |-> "returned", text |-> ct.text, chunk_size |-> ct.chunk_size,
              chunk_overlap |-> ct.chunk_overlap, result |-> ct.chunks]
    /\ UNCHANGED <<listed, deletes, backend, vreq, vresp, ExecutorVars, UploadVars,
                   ChatVars>>

NextChunk ==
    \/ \E text \in ChunkTexts, chunk_size \in ChunkSizes, chunk_overlap \in ChunkOverlaps :
          ChunkTextCall(text, chunk_size, chunk_overlap)
    \/ ChunkTextLoop
    \/ ChunkTextReturn

SpecChunk == InitUpload /\ [][NextChunk]_vars

\* the legacy chat requests among the chat requests
NextLegacy ==
    /\ served < MaxChats
    /\ \E env \in Environments, s \in ChatSessionIds :
          \/ \E body \in LegacyBodies : LegacyChat(body, s, env)
          \/ Chat("hi", s, env)
          \/ SimpleMainChat("hi", env)

SpecLegacy == InitChat /\ [][NextLegacy]_vars

\* the registry is asked for between validations, workflow creations and runs
TypesNodeLists == {<<UQ, OUT>>, <<UQ, LLM, OUT>>}

NextTypes ==
    \/ GetComponentTypes
    \/ SimpleGetComponentTypes
    \/ NextValidator
    \/ \E id \in WorkflowIds : CreateWorkflow(id, TypesNodeLists)
    \/ Execute(1)

SpecTypes == InitValidator /\ [][NextTypes]_vars

\* the validators
SpecValidator == InitValidator /\ [][NextValidator]_vars

---------------------------------------------------------------------------
(* The validator's claims, under SpecValidator *)

Answered == vreq.sent /\ vresp # NoResponse
\* a ValidationResult came back
Validated == Answered /\ vresp.code = 200
Config == vreq.configuration
Field(k) == Get(Config, k, Null)

\* a field that is absent, null or empty (a value Python counts as false)
Missing(k) ==
    \/ k \notin DOMAIN Config
    \/ Config[k] \in {Null, Str(""), List(<<>>), Num(0)}

\* a string of whitespace only
AllSpace(str) == \A i \in 1..Len(str) : SubSeq(str, i, i) \in {" ", "\t", "\n"}

\* C1: a component type outside the four known kinds is answered by
\* is_valid = false, the single error "Unknown component type: <type>" and no
\* warning.
C1_UnknownTypeRejected ==
    (Answered /\ vreq.component_type \notin KnownKinds) =>
        /\ vresp.code = 200
        /\ vresp.is_valid = FALSE
        /\ vresp.errors = <<"Unknown component type: " \o vreq.component_type>>
        /\ vresp.warnings = <<>>

\* C2: for the four component types, a ValidationResult has is_valid = true
\* exactly when its error list is empty, whatever its warnings.
C2_ValidIffNoErrors ==
    (Validated /\ vreq.component_type \in KnownKinds) =>
        (vresp.is_valid <=> (vresp.errors = <<>>))

C2_Witness ==
    /\ Validated
    /\ vreq.component_type \in KnownKinds
    /\ vresp.is_valid
    /\ vresp.errors = <<>>
    /\ vresp.warnings # <<>>

\* C3: the result for userQuery holds the single error "Query is required"
\* exactly when query is missing or blank after trimming; otherwise it holds no
\* error, and one warning exactly when the query is longer than 1000 characters.
C3_UserQuery ==
    (Validated /\ backend = "main" /\ vreq.component_type = "userQuery") =>
        LET query == Field("query")
            blank == Missing("query") \/ (query.kind = "str" /\ AllSpace(query.v))
        IN IF blank
           THEN vresp.errors = <<"Query is required">>
           ELSE /\ vresp.errors = <<>>
                /\ Len(query.v) > 1000 => Len(vresp.warnings) = 1
                /\ Len(query.v) <= 1000 => vresp.warnings = <<>>

C3_Witness ==
    /\ Validated /\ backend = "main" /\ vreq.component_type = "userQuery"
    /\ Field("query").kind = "str"
    /\ Len(Field("query").v) = 1001
    /\ vresp.errors = <<>>
    /\ Len(vresp.warnings) = 1

\* C4: the result for knowledgeBase holds an error when source is missing, and
\* otherwise exactly when the field its source requires is missing (documents for
\* upload, url for url, textContent for text); whatever the errors, it holds a
\* warning exactly when chunkSize (default 1000) is outside [100, 4000], and
\* chunkSize adds no error.
C4_KnowledgeBase ==
    (Validated /\ backend = "main" /\ vreq.component_type = "knowledgeBase") =>
        LET source == Field("source")
            required == IF source = Str("upload") THEN "documents"
                        ELSE IF source = Str("url") THEN "url"
                        ELSE IF source = Str("text") THEN "textContent"
                        ELSE "none"
            wrong == Missing("source") \/ (required # "none" /\ Missing(required))
            chunkSize == Get(Config, "chunkSize", Num(1000))
            outside == chunkSize.v < 100 * 10 \/ chunkSize.v > 4000 * 10
        IN /\ Len(vresp.errors) = (IF wrong THEN 1 ELSE 0)
           /\ Missing("source") => vresp.errors = <<"Knowledge source is required">>
           /\ Len(vresp.warnings) = (IF outside THEN 1 ELSE 0)

C4_Witness ==
    /\ Validated /\ backend = "main" /\ vreq.component_type = "knowledgeBase"
    /\ Field("source") = Str("text")
    /\ Missing("textContent")
    /\ Field("chunkSize") = Num(99)
    /\ Len(vresp.errors) = 1
    /\ Len(vresp.warnings) = 1

\* C5: the result for llmEngine holds an error when model is missing and,
\* independently, an error when temperature (default 0.7) is outside [0, 1]; it
\* holds a warning, and no error, exactly when maxTokens (default 2048) is outside
\* [1, 8192]; the boundary values are accepted.
C5_LLMEngine ==
    (Validated /\ backend = "main" /\ vreq.component_type = "llmEngine") =>
        LET temperature == Get(Config, "temperature", Dec(7))
            maxTokens == Get(Config, "maxTokens", Num(2048))
            noModel == Missing("model")
            badTemperature == temperature.v < 0 \/ temperature.v > 10
            badTokens == maxTokens.v < 1 * 10 \/ maxTokens.v > 8192 * 10
        IN /\ vresp.errors =
                (IF noModel THEN <<"Model selection is required">> ELSE <<>>)
                \o (IF badTemperature
                    THEN <<"Temperature must be between 0 and 1">> ELSE <<>>)
           /\ Len(vresp.warnings) = (IF badTokens THEN 1 ELSE 0)

C5_Witness ==
    /\ Validated /\ backend = "main" /\ vreq.component_type = "llmEngine"
    /\ ~Missing("model")
    /\ Field("temperature") = Num(1)
    /\ Field("maxTokens") = Num(8192)
    /\ vresp.errors = <<>>
    /\ vresp.warnings = <<>>
    /\ vresp.is_valid

\* C6: the result for output holds an error when format is missing and,
\* independently, an error when destination is email with no email or api with no
\* apiEndpoint; an absent destination (display) and download add no error.
C6_Output ==
    (Validated /\ backend = "main" /\ vreq.component_type = "output") =>
        LET destination == Get(Config, "destination", Str("display"))
            noTarget == \/ destination = Str("email") /\ Missing("email")
                        \/ destination = Str("api") /\ Missing("apiEndpoint")
        IN /\ Len(vresp.errors) =
                (IF Missing("format") THEN 1 ELSE 0) + (IF noTarget THEN 1 ELSE 0)
           /\ Missing("format") => vresp.errors[1] = "Output format is required"
           /\ destination \in {Str("display"), Str("download")} =>
                Len(vresp.errors) = (IF Missing("format") THEN 1 ELSE 0)

C6_Witness ==
    /\ Validated /\ backend = "main" /\ vreq.component_type = "output"
    /\ Missing("format")
    /\ Field("destination") = Str("email")
    /\ Missing("email")
    /\ Len(vresp.errors) = 2

\* C7: whatever the component type and the configuration, values of an
\* unexpected kind included, the answer is a ValidationResult and never a server
\* fault.
C7_NoServerFault == Answered => vresp.code < 500

---------------------------------------------------------------------------
(* The executor's claims, under Spec *)

\* main.py found the workflow and answered with an ExecutionStatus
Executed == backend = "main" /\ xreq.sent /\ xresp.http = 200
RunNodes == workflows[xreq.workflow_id].nodes
Has(type) == \E i \in 1..Len(RunNodes) : RunNodes[i].type = type
KBIndexes == {i \in 1..Len(RunNodes) : RunNodes[i].type = "knowledgeBase"}
Complete == Has("userQuery") /\ Has("llmEngine") /\ Has("output")

\* C8: a workflow that lacks a userQuery, output or llmEngine node gets status
\* failed, progress 0, no result, and the error of the first kind missing in the
\* order userQuery, output, llmEngine.
C8_FirstMissingKind ==
    (Executed /\ ~Complete) =>
        /\ xresp.body.status = "failed"
        /\ xresp.body.progress = 0
        /\ xresp.body.result = None
        /\ xresp.body.error =
              IF ~Has("userQuery") THEN Some("No user query component found")
              ELSE IF ~Has("output") THEN Some("No output component found")
              ELSE Some("No LLM engine component found")

C8_Witness ==
    /\ Executed
    /\ Has("userQuery") /\ ~Has("output") /\ ~Has("llmEngine")
    /\ xresp.body.status = "failed"
    /\ xresp.body.progress = 0
    /\ xresp.body.error = Some("No output component found")

\* the textContent of a text node is a string, or is missing or empty
TextIsString(node) ==
    LET data == node.data IN
    (/\ "source" \in DOMAIN data /\ data["source"] = Str("text")
     /\ "textContent" \in DOMAIN data)
        => data["textContent"].kind \in {"str", "null"}
           \/ data["textContent"] \in {Num(0), List(<<>>)}

\* C9 as claimed: every workflow with a userQuery, an llmEngine and an output
\* node, no collaborator failing, ends completed with progress 100, and with no
\* knowledgeBase node the context is empty.
C9_CompleteWorkflowCompletes ==
    /\ (Executed /\ Complete /\ ~xreq.fault) =>
          /\ xresp.body.status = "completed"
          /\ xresp.body.progress = 100
          /\ KBIndexes = {} => xcontext = Some("")
    /\ (backend = "simple" /\ xreq.sent /\ ~xreq.fault) =>
          /\ xresp.http = 200
          /\ xresp.body.status = "completed"
          /\ xresp.body.progress = 100

\* What does hold: the same, for the workflows whose text nodes hold a string as
\* textContent (a textContent that is not a string makes the join raise).
C9_WellFormedWorkflowCompletes ==
    /\ (Executed /\ Complete /\ ~xreq.fault
        /\ \A i \in KBIndexes : TextIsString(RunNodes[i])) =>
          /\ xresp.body.status = "completed"
          /\ xresp.body.progress = 100
          /\ KBIndexes = {} => xcontext = Some("")
    /\ (backend = "simple" /\ xreq.sent /\ ~xreq.fault) =>
          /\ xresp.http = 200
          /\ xresp.body.status = "completed"
          /\ xresp.body.progress = 100

C9_Witness ==
    /\ Executed /\ Complete /\ ~xreq.fault
    /\ KBIndexes = {}
    /\ xresp.body.status = "completed"
    /\ xresp.body.progress = 100
    /\ xcontext = Some("")

\* what the claim has a knowledgeBase node contribute: a text node its
\* textContent, whatever it is; an upload or url node its placeholder
ClaimedParts(node) ==
    LET data == node.data
        source == IF "source" \in DOMAIN data THEN data["source"] ELSE Null
    IN IF source = Str("text")
       THEN <<IF "textContent" \in DOMAIN data /\ data["textContent"].kind = "str"
              THEN data["textContent"].v ELSE "">>
       ELSE IF source = Str("upload") THEN <<"Document content would be processed here">>
       ELSE IF source = Str("url") THEN <<"URL content would be processed here">>
       ELSE <<>>

\* the same, but a text node contributes only a textContent that is not empty
AmendedParts(node) ==
    LET data == node.data
        source == IF "source" \in DOMAIN data THEN data["source"] ELSE Null
    IN IF source = Str("text")
       THEN IF "textContent" \in DOMAIN data /\ data["textContent"].kind = "str"
               /\ data["textContent"].v # ""
            THEN <<data["textContent"].v>> ELSE <<>>
       ELSE IF source = Str("upload") THEN <<"Document content would be processed here">>
       ELSE IF source = Str("url") THEN <<"URL content would be processed here">>
       ELSE <<>>

\* the parts of the knowledgeBase nodes among nodes[i..], in node order
RECURSIVE PartsFrom(_, _, _)
PartsFrom(Parts(_), nodes, i) ==
    IF i > Len(nodes) THEN <<>>
    ELSE (IF nodes[i].type = "knowledgeBase" THEN Parts(nodes[i]) ELSE <<>>)
         \o PartsFrom(Parts, nodes, i + 1)

\* the parts, a newline between one and the next
RECURSIVE Lines(_)
Lines(parts) ==
    IF parts = <<>> THEN ""
    ELSE IF Len(parts) = 1 THEN parts[1]
    ELSE parts[1] \o "\n" \o Lines(Tail(parts))

\* C10 as claimed: the context is the contributions of all knowledgeBase nodes in
\* node order, joined by a newline, a text node contributing its textContent even
\* when that is empty.
C10_ContextIsAllContributions ==
    (Executed /\ xcontext # None) =>
        xcontext = Some(Lines(PartsFrom(ClaimedParts, RunNodes, 1)))

\* C10 as amended: the same, but a text node whose textContent is missing or empty
\* contributes nothing.
C10_ContextIsNonEmptyContributions ==
    (Executed /\ xcontext # None) =>
        xcontext = Some(Lines(PartsFrom(AmendedParts, RunNodes, 1)))

C10_Witness ==
    /\ Executed
    /\ \E i, j, k \in KBIndexes :
          /\ i < j /\ j < k
          /\ RunNodes[i] = KBAlpha /\ RunNodes[j] = KBEmpty /\ RunNodes[k] = KBBeta
    /\ xcontext = Some("alpha\nbeta")

\* the run generated a response text
Generated == Executed /\ xai # None
Completed == Executed /\ xresp.body.status = "completed"
Indexes(type) == {i \in 1..Len(RunNodes) : RunNodes[i].type = type}
First(type) == RunNodes[CHOOSE i \in Indexes(type) : \A j \in Indexes(type) : i <= j]
HasPrefix(str, prefix) ==
    Len(str) >= Len(prefix) /\ SubSeq(str, 1, Len(prefix)) = prefix

EngineModel ==
    LET data == First("llmEngine").data IN
    IF "model" \in DOMAIN data THEN data["model"] ELSE Str("gemini-1.5-flash")
EngineTemperature ==
    LET data == First("llmEngine").data IN
    IF "temperature" \in DOMAIN data THEN data["temperature"] ELSE Dec(7)

\* the stored workflow, every llmEngine node after the first taken out
OneEngineWorkflow ==
    LET keep == {i \in 1..Len(RunNodes) :
                    RunNodes[i].type = "llmEngine" => \A j \in Indexes("llmEngine") : i <= j}
        F[i \in 0..Len(RunNodes)] ==
            IF i = 0 THEN <<>>
            ELSE IF i \in keep THEN Append(F[i - 1], RunNodes[i]) ELSE F[i - 1]
    IN [workflows[xreq.workflow_id] EXCEPT !.nodes = F[Len(RunNodes)]]

\* C11: the response text names the model and the temperature of the first
\* llmEngine node (gemini-1.5-flash and 0.7 where it has none); a run of the same
\* workflow without its later llmEngine nodes gives the same text and the same
\* formatted response, and llm_engines counts all llmEngine nodes.
C11_FirstEngineConfigures ==
    Generated =>
        /\ HasPrefix(xai[1],
              "Based on your query: \"" \o xreq.query \o "\"\n        \nUsing model: "
              \o Text(EngineModel) \o "\nTemperature: " \o Text(EngineTemperature) \o "\n")
        /\ LET alone == EnhancedRun(xreq.workflow_id, OneEngineWorkflow,
                                    [workflow_id |-> xreq.workflow_id,
                                     query |-> xreq.query,
                                     session_id |-> xreq.session_id],
                                    xresp.body.execution_id, ~xreq.fault)
           IN /\ alone.ai = xai
              /\ Completed =>
                    /\ alone.response.body.result[1].response
                          = xresp.body.result[1].response
                    /\ xresp.body.result[1].components_used.llm_engines
                          = Cardinality(Indexes("llmEngine"))

C11_Witness ==
    /\ Completed
    /\ Cardinality(Indexes("llmEngine")) = 2
    /\ First("llmEngine") = LLMOther
    /\ \E i \in Indexes("llmEngine") : RunNodes[i] = LLM
    /\ HasPrefix(xai[1],
          "Based on your query: \"hi\"\n        \nUsing model: m2\nTemperature: 0.2\n")
    /\ xresp.body.result[1].components_used.llm_engines = 2

\* C12: a run that passes the structure checks calls the external LLM exactly
\* once, and the text that is formatted is the text that call returned.
C12_LLMInvokedOnce ==
    /\ (Executed /\ Complete) => Len(llm_calls) = 1
    /\ (backend = "simple" /\ xreq.sent) =>
          /\ Len(llm_calls) = 1
          /\ xresp.http = 200 => xresp.body.result = xai

HasSuffix(str, suffix) ==
    Len(str) >= Len(suffix)
    /\ SubSeq(str, Len(str) - Len(suffix) + 1, Len(str)) = suffix

\* the format field of the first output node
OutputFormat ==
    LET data == First("output").data IN
    IF "format" \in DOMAIN data THEN data["format"] ELSE Str("text")

\* C13: the formatted response of a completed run is the response text under the
\* transform the format of the first output node selects (text when it has
\* none): a heading before it for markdown, an object with the keys query,
\* response, model, timestamp for json, markup around it for html, and the text
\* itself for every other value; result.format is the format read.
C13_FormatTransform ==
    Completed =>
        LET result == xresp.body.result[1]
            response == result.response
            text == xai[1]
        IN /\ result.format = OutputFormat
           /\ CASE OutputFormat = Str("markdown") ->
                    /\ response.kind = "str"
                    /\ response.v = "# AI Response\n\n" \o text
                [] OutputFormat = Str("json") ->
                    /\ response.kind = "json"
                    /\ response.v.json = <<"query", "response", "model", "timestamp">>
                    /\ response.v.query = xreq.query
                    /\ response.v.response = text
                    /\ response.v.model = EngineModel
                [] OutputFormat = Str("html") ->
                    /\ response.kind = "str"
                    /\ HasPrefix(response.v, "<h1>AI Response</h1><p>")
                    /\ HasSuffix(response.v, text \o "</p>")
                    /\ Len(response.v) = Len(text) + 27
                [] OTHER -> response = Str(text)

C13_Witness ==
    /\ Completed
    /\ First("output") = OUTHtml
    /\ \E i \in Indexes("output") : RunNodes[i] = OUT
    /\ xresp.body.result[1].format = Str("html")
    /\ HasPrefix(xresp.body.result[1].response.v,
                 "<h1>AI Response</h1><p>Based on your query: \"hi\"")

\* C14: a run that ends completed has attached a result with the formatted
\* response, the format and the number of nodes of each of the four kinds, and
\* has appended to the chat history exactly one entry, with role assistant, the
\* formatted response as content and the run's execution id in its metadata.
C14_ResultAndHistoryEntry ==
    [][(backend = "main" /\ served' = served + 1 /\ xresp'.http = 200
        /\ xresp'.body.status = "completed") =>
         LET result == xresp'.body.result[1]
             nodes == workflows[xreq'.workflow_id].nodes
             Count(type) == Cardinality({i \in 1..Len(nodes) : nodes[i].type = type})
             entry == chat_history'[Len(chat_history')]
         IN /\ xresp'.body.result # None
            /\ result.format = Get(First("output").data, "format", Str("text"))'
            /\ result.components_used =
                  [user_query |-> Count("userQuery"),
                   knowledge_bases |-> Count("knowledgeBase"),
                   llm_engines |-> Count("llmEngine"),
                   output |-> Count("output")]
            /\ Len(chat_history') = Len(chat_history) + 1
            /\ SubSeq(chat_history', 1, Len(chat_history)) = chat_history
            /\ entry.role = "assistant"
            /\ entry.content = result.response
            /\ entry.metadata.execution_id = xresp'.body.execution_id
            /\ entry.workflow_id = xreq'.workflow_id]_vars

C14_Witness ==
    /\ Completed
    /\ Has("note")
    /\ xresp.body.result[1].components_used =
          [user_query |-> 2, knowledge_bases |-> 0, llm_engines |-> 2, output |-> 2]
    /\ Len(RunNodes) = 7
    /\ Len(chat_history) = 1
    /\ chat_history[1].role = "assistant"
    /\ chat_history[1].content = xresp.body.result[1].response
    /\ chat_history[1].metadata.execution_id = xresp.body.execution_id

\* a fault was raised in the run after the structure checks
Faulted ==
    \/ Executed /\ Complete
       /\ (xreq.fault \/ \E i \in KBIndexes : ~TextIsString(RunNodes[i]))
    \/ backend = "simple" /\ xreq.sent /\ xreq.fault

\* What does hold, of main.py: the fault is answered with a failed status that
\* carries its message.
C15_MainCatchesFaults ==
    (Faulted /\ backend = "main") =>
        /\ xresp.http = 200
        /\ xresp.body.status = "failed"
        /\ xresp.body.error # None
        /\ xresp.body.error # Some("")
        /\ xresp.body.result = None

\* C15: a fault raised after the structure checks is answered with an
\* ExecutionStatus whose status is failed and whose error is the fault's message;
\* it does not reach the caller as a failed request.
C15_FaultsAreCaught ==
    Faulted =>
        /\ xresp.http = 200
        /\ xresp.body.status = "failed"
        /\ xresp.body.error # None

---------------------------------------------------------------------------
(* The claims about successive runs, under SpecRuns *)

\* C16: no two execute-enhanced responses carry the same execution id.
C16_FreshExecutionIds ==
    \A i, j \in DOMAIN returned_ids : i # j => returned_ids[i] # returned_ids[j]

\* What does hold, of main.py: the ids uuid4 hands out are never handed out twice.
C16_MainFreshExecutionIds ==
    backend = "main" => C16_FreshExecutionIds

---------------------------------------------------------------------------
(* The claims about document upload, under SpecUpload *)

\* the name has no .pdf ending, in whatever case its letters are
NotPdfName(file) ==
    LET n == Len(file.filename) IN
    \/ n < 4
    \/ SubSeq(file.filename, n - 3, n) \notin
          {a \o b \o c \o d : a \in {"."}, b \in {"p", "P"}, c \in {"d", "D"},
                              d \in {"f", "F"}}

\* C17: an upload whose file name does not end in .pdf (letter case aside) or
\* whose size is above 10 MB is answered at once with a 400, and its step leaves
\* the Document table and the vector store as they were; a file of exactly 10 MB
\* is not answered with the size error.
C17_UploadRejects ==
    [][\A u \in UploadRequests :
          (uploads[u].pc = "idle" /\ uploads'[u].pc # "idle") =>
             LET file == uploads'[u].file IN
             /\ (NotPdfName(file) \/ file.size > 10 * 1024 * 1024) =>
                   /\ uploads'[u].pc = "done"
                   /\ uploads'[u].response.code = 400
                   /\ documents' = documents
                   /\ collection' = collection
             /\ (file.size = 10 * 1024 * 1024 /\ uploads'[u].pc = "done") =>
                   uploads'[u].response.detail # "File size must be less than 10MB"
             /\ (file.size = 10 * 1024 * 1024 /\ ~NotPdfName(file)
                 /\ file.content.pdf /\ Strip(file.content.text) # "") =>
                   uploads'[u].pc = "record"]_vars

C17_Witness ==
    /\ uploads["u1"].pc = "done"
    /\ uploads["u1"].file.size = MaxUploadSize + 1
    /\ ~NotPdfName(uploads["u1"].file)
    /\ uploads["u1"].response.code = 400
    /\ uploads["u2"].pc = "done"
    /\ uploads["u2"].file.size = MaxUploadSize
    /\ uploads["u2"].response.code = 200
    /\ DOMAIN documents = {uploads["u2"].document_id}
    /\ \A id \in DOMAIN collection :
          collection[id].metadata.document_id = uploads["u2"].document_id

\* the requests that have written their chunks to the vector store
Embedded == {u \in UploadRequests : "embedding_ids" \in DOMAIN uploads[u]}
IdsOf(u) == {uploads[u].embedding_ids[i] : i \in 1..Len(uploads[u].embedding_ids)}

\* C18: the chunk ids two uploads write are disjoint, each id carrying the id of
\* its own document; what the vector store holds under the ids of an upload is
\* that upload's chunks; and once an upload is answered, its Document record
\* holds exactly its own ids, whatever the order of the two requests' steps.
C18_UploadsDoNotInterfere ==
    /\ \A u, v \in Embedded : u # v => IdsOf(u) \cap IdsOf(v) = {}
    /\ \A u \in Embedded :
          LET up == uploads[u] IN
          /\ Len(up.embedding_ids) = Len(up.text_chunks)
          /\ \A i \in 1..Len(up.embedding_ids) :
                /\ HasPrefix(up.embedding_ids[i], up.document_id \o "_chunk_")
                /\ up.embedding_ids[i] \in DOMAIN collection
                /\ collection[up.embedding_ids[i]].document = up.text_chunks[i]
                /\ collection[up.embedding_ids[i]].metadata.document_id = up.document_id
          /\ up.pc = "done" =>
                /\ documents[up.document_id].embedding_ids = Some(up.embedding_ids)
                /\ documents[up.document_id].processed
                /\ documents[up.document_id].original_filename = up.file.filename
    /\ \A u, v \in UploadRequests :
          (u # v /\ "document_id" \in DOMAIN uploads[u]
                 /\ "document_id" \in DOMAIN uploads[v]) =>
             uploads[u].document_id # uploads[v].document_id

\* both requests have written their chunks before either has updated its record
C18_Witness ==
    /\ uploads["u1"].pc = "embedded"
    /\ uploads["u2"].pc = "embedded"
    /\ Len(uploads["u1"].embedding_ids) = 2
    /\ Len(uploads["u2"].embedding_ids) = 3
    /\ Cardinality(DOMAIN collection) = 5
    /\ \A id \in DOMAIN documents : documents[id].embedding_ids = None

---------------------------------------------------------------------------
(* The claims about workflow execution and chat, under SpecChat *)

\* the request just answered, to the endpoint
Answers(endpoint) == served' = served + 1 /\ creq'.sent /\ creq'.endpoint = endpoint
FailedCalls(log) == {i \in 1..Len(log) : ~log[i].ok}
Contains(str, part) ==
    \E i \in 1..(Len(str) - Len(part) + 1) : SubSeq(str, i, i + Len(part) - 1) = part

\* What does hold: no service is called twice during one request.
C19_NoRetry ==
    \A i, j \in 1..Len(calls) : i # j => calls[i].to # calls[j].to

\* C19: when an external call of a workflow execution fails, the request ends
\* with a 5xx, no call is made after the failed one, no call is repeated, and no
\* chat history entry is written.
C19_FailedCallAborts ==
    [][(Answers("execute") /\ FailedCalls(calls') # {} /\ creq'.env.commit_ok) =>
          /\ cresp'.code >= 500
          /\ \A i \in FailedCalls(calls') : i = Len(calls')
          /\ \A i, j \in 1..Len(calls') : i # j => calls'[i].to # calls'[j].to
          /\ chat_history' = chat_history]_vars

\* What does hold, of main.py: without an API key, or with the embedding lookup
\* failing, the chat request is answered 200 with role assistant and a session
\* id, and without an API key the content is the message that says so.
C20_MainChatDegrades ==
    (backend = "main" /\ creq.sent /\ creq.endpoint = "chat" /\ creq.env.commit_ok
     /\ (~creq.env.configured \/ creq.env.search = None)) =>
        /\ cresp.code = 200
        /\ cresp.body.role = "assistant"
        /\ cresp.body.session_id \in ChatSessionIds
        /\ ~creq.env.configured => Contains(cresp.body.content, "not configured")

\* C20: a chat request made while the LLM provider is not configured or while
\* the embedding search fails is answered with a success, and without a
\* provider the content is the placeholder that says so.
C20_ChatDegrades ==
    (creq.sent /\ creq.endpoint = "chat" /\ creq.env.commit_ok
     /\ (~creq.env.configured \/ creq.env.search = None)) =>
        /\ cresp.code = 200
        /\ backend = "main" =>
              /\ cresp.body.role = "assistant"
              /\ cresp.body.session_id \in ChatSessionIds
              /\ ~creq.env.configured => Contains(cresp.body.content, "not configured")

---------------------------------------------------------------------------
(* The registry's claim, under SpecTypes *)

\* the variables other than the record of the registries returned
NotListed ==
    <<deletes, ct, backend, vreq, vresp, workflows, chat_history, used_ids, xreq, xresp,
      xlog, xcontext, xai, llm_calls, returned_ids, served, UploadVars, ChatVars>>

\* C21: listing the component types is pure and idempotent: whatever requests
\* were answered before, a call returns a registry equal to every registry
\* returned earlier, types and descriptors alike, and the call changes no state.
C21_ListingIsPure ==
    [][listed' # listed =>
          /\ NotListed' = NotListed
          /\ \A i, j \in DOMAIN listed' : listed'[i] = listed'[j]
          /\ \A i \in DOMAIN listed' : Cardinality(DOMAIN listed'[i]) = 4]_vars

C21_Witness ==
    /\ Len(listed) = 2
    /\ listed[1] = listed[2]
    /\ vresp # NoResponse
    /\ xreq.sent
    /\ DOMAIN workflows # {}

---------------------------------------------------------------------------
(* The order of the execution status, under Spec *)

Checkpoints == <<0, 20, 40, 70, 90, 100>>
Terminal(st) == st.status \in {"completed", "failed"}

\* the values of execution_status in the order the run gave them, then the
\* status the response carries
Observed == xlog \o <<xresp.body>>

\* C22: within one run progress never decreases from one observed status to the
\* next, the status finally returned included, no checkpoint is revisited, and a
\* status that is completed or failed never changes again.
C22_ProgressNeverDecreases ==
    Executed =>
        /\ \A i, j \in DOMAIN Observed :
              i < j => Observed[i].progress <= Observed[j].progress
        /\ \A i, j \in DOMAIN xlog :
              (i < j /\ ~Terminal(xlog[j])) => xlog[i].progress < xlog[j].progress
        /\ \A i, j \in DOMAIN Observed :
              (i < j /\ Terminal(Observed[i])) => Observed[j] = Observed[i]

\* What does hold: execution_status passes the checkpoints in their order, none
\* twice, and is completed or failed only in its last value; the status returned
\* is that last value, unless a fault was caught, and then it is a failed status
\* built anew with progress 0, whichever checkpoint had been reached.
C22_CheckpointsInOrder ==
    Executed =>
        LET last == xlog[Len(xlog)]
            caught == xresp.body.current_step = "Execution failed"
        IN  /\ \A i \in DOMAIN xlog :
                  /\ ~Terminal(xlog[i]) => xlog[i].progress = Checkpoints[i]
                  /\ Terminal(xlog[i]) => i = Len(xlog)
            /\ last.status = "completed" =>
                  Len(xlog) = Len(Checkpoints) /\ last.progress = 100
            /\ last.status = "failed" => Len(xlog) = 2 /\ last.progress = 0
            /\ caught <=> (Complete /\ (xreq.fault \/ ~Terminal(last)))
            /\ ~caught => xresp.body = last
            /\ caught => xresp.body.status = "failed" /\ xresp.body.progress = 0

C22_Witness ==
    /\ Executed
    /\ Len(xlog) = 6
    /\ xlog[6].status = "completed"
    /\ xresp.body.status = "failed"
    /\ xresp.body.progress = 0

---------------------------------------------------------------------------
(* Edges and positions, under SpecGraph *)

\* the workflow with the same node sequence, every node at the origin, no edge
Bare(workflow) ==
    [workflow EXCEPT
        !.edges = <<>>,
        !.nodes = [i \in DOMAIN workflow.nodes |->
                      [workflow.nodes[i] EXCEPT !.position = [x |-> 0, y |-> 0]]]]

\* C23: the outcome of execute-enhanced does not depend on edges or positions:
\* the run of a workflow answers, for the same query, with the status, error,
\* response text, format and node counts that the run of the workflow with the
\* same nodes, no edge and every node at the origin answers with.
C23_EdgesAndPositionsIgnored ==
    Executed =>
        LET bare == EnhancedRun(xreq.workflow_id, Bare(workflows[xreq.workflow_id]),
                                [workflow_id |-> xreq.workflow_id, query |-> xreq.query,
                                 session_id |-> xreq.session_id],
                                xresp.body.execution_id, ~xreq.fault)
        IN  /\ xresp.body.status = bare.response.body.status
            /\ xresp.body.error = bare.response.body.error
            /\ xresp.body.result = bare.response.body.result
            /\ xresp.body.progress = bare.response.body.progress

C23_Witness ==
    /\ Executed
    /\ Completed
    /\ workflows[xreq.workflow_id].edges # <<>>
    /\ \E i \in DOMAIN RunNodes : RunNodes[i].position.x # 0
    /\ Len(RunNodes) = 5

---------------------------------------------------------------------------
(* The chat history, under SpecHistory *)

\* C24: chat history is append-only under execute, execute-enhanced and chat:
\* a request that is answered leaves every entry that existed at its place with
\* its session id, role and content, and leaves every stored workflow, the one
\* executed included, as it was.
C24_HistoryAppendOnly ==
    [][served' # served =>
          /\ Len(chat_history') >= Len(chat_history)
          /\ \A i \in DOMAIN chat_history :
                /\ chat_history'[i].session_id = chat_history[i].session_id
                /\ chat_history'[i].role = chat_history[i].role
                /\ chat_history'[i].content = chat_history[i].content
          /\ workflows' = workflows]_vars

C24_Witness ==
    /\ Len(chat_history) = 3
    /\ "execution_id" \in DOMAIN chat_history[1].metadata
    /\ chat_history[2].role = "user"
    /\ chat_history[3].role = "assistant"
    /\ creq.endpoint = "execute"

---------------------------------------------------------------------------
(* The unknown workflow, under Spec *)

UnknownAnswered == backend = "main" /\ xreq.sent /\ xreq.workflow_id \in UnknownWorkflowIds

\* C25: execute-enhanced on a workflow id that is not in the store answers with
\* the client error 404 "Workflow not found", neither a server fault nor a
\* failed status, and writes no chat history entry.
C25_UnknownWorkflowIs404 ==
    UnknownAnswered =>
        /\ xresp.http = 404
        /\ xresp.body = [detail |-> "Workflow not found"]
        /\ chat_history = <<>>

\* What does hold: no entry is written and no status is returned, but the answer
\* is a server fault.
C25_UnknownWorkflowFaults ==
    UnknownAnswered =>
        /\ xresp.http = 500
        /\ "status" \notin DOMAIN xresp.body
        /\ chat_history = <<>>

---------------------------------------------------------------------------
(* Documents and their embeddings, under SpecDocuments *)

\* the chunks the record names are in the vector store
Stored(document) ==
    /\ document.embedding_ids # None
    /\ \A i \in DOMAIN document.embedding_ids[1] :
          document.embedding_ids[1][i] \in DOMAIN collection

\* C26: in every state, uploads and deletes interleaved, failed embedding storage
\* and failed deletes included, a Document with processed true has embedding ids
\* naming chunks present in the vector store, and a Document with processed
\* false, the one of an upload whose embedding storage failed included, has no
\* embedding ids.
C26_ProcessedHasEmbeddings ==
    \A d \in DOMAIN documents :
        /\ documents[d].processed => Stored(documents[d])
        /\ ~documents[d].processed => documents[d].embedding_ids = None

\* What does hold: the same, of the documents no delete request has named.
C26_UndeletedProcessedHasEmbeddings ==
    \A d \in DOMAIN documents :
        (\A x \in DeleteRequests :
            "document_id" \in DOMAIN deletes[x] => deletes[x].document_id # d) =>
        /\ documents[d].processed => Stored(documents[d])
        /\ ~documents[d].processed => documents[d].embedding_ids = None

\* a delete whose commit failed after its embeddings were removed has been answered
C26_FailedDelete ==
    \E x \in DeleteRequests :
        /\ deletes[x].pc = "done"
        /\ deletes[x].response.code = 500
        /\ deletes[x].document_id \in DOMAIN documents
        /\ documents[deletes[x].document_id].processed
        /\ ~Stored(documents[deletes[x].document_id])


\* the entries of the history that carry the execution id
Tagged(history, execution_id) ==
    {i \in DOMAIN history :
        /\ "execution_id" \in DOMAIN history[i].metadata
        /\ history[i].metadata.execution_id = execution_id}

\* C27: an entry tagged with an execution id exists if and only if that run
\* returned completed: a run that returns failed has written no entry, and a
\* completed run exactly one, under the request's session id, or under "default"
\* when none was given.
C27_EntryIffCompleted ==
    [][(backend = "main" /\ returned_ids' # returned_ids) =>
          LET execution_id == xresp'.body.execution_id
              before == Tagged(chat_history, execution_id)
              after == Tagged(chat_history', execution_id)
          IN  /\ before = {}
              /\ xresp'.body.status = "failed" => after = {}
              /\ xresp'.body.status = "completed" =>
                    /\ Cardinality(after) = 1
                    /\ \A i \in after :
                          chat_history'[i].session_id =
                              IF xreq'.session_id = Null THEN "default"
                              ELSE xreq'.session_id.v]_vars

C27_Witness ==
    /\ Completed
    /\ xreq.session_id = Str("s1")
    /\ Len(chat_history) = 3
    /\ Tagged(chat_history, xresp.body.execution_id) = {3}
    /\ chat_history[3].session_id = "s1"
    /\ "execution_id" \notin DOMAIN chat_history[1].metadata

---------------------------------------------------------------------------
(* The status returned, under Spec *)

\* a status was returned, by either program
StatusReturned == xreq.sent /\ xresp.http = 200

\* the field of the status, None when the response model has no such field
StatusField(body, name) == IF name \in DOMAIN body THEN body[name] ELSE None

\* C28: every status execute-enhanced returns is terminal and consistent: it is
\* completed or failed, never running; completed exactly when progress is 100, a
\* result is present and error is absent; failed exactly when progress is 0,
\* error is present and result is absent.
C28_StatusConsistent ==
    StatusReturned =>
        LET body == xresp.body
            done == /\ body.progress = 100
                    /\ StatusField(body, "result") # None
                    /\ StatusField(body, "error") = None
            lost == /\ body.progress = 0
                    /\ StatusField(body, "error") # None
                    /\ StatusField(body, "result") = None
        IN  /\ body.status \in {"completed", "failed"}
            /\ body.status = "completed" <=> done
            /\ body.status = "failed" <=> lost

C28_Witness ==
    /\ StatusReturned
    /\ backend = "main"
    /\ xresp.body.status = "failed"
    /\ xresp.body.current_step = "Initializing workflow execution"
    /\ xresp.body.error = Some("No output component found")

---------------------------------------------------------------------------
(* The legacy chat endpoint, under SpecLegacy *)

\* POST /chat was answered, its body without a question or with an empty one
NoQuestion ==
    /\ creq.sent
    /\ creq.endpoint = "legacy"
    /\ creq.body # None
    /\ ~Truthy(Get(creq.body[1], "question", Str("")))

\* C29: the legacy POST /chat rejects a body whose question is missing or empty
\* with the client error 400 "Question is required", not a 5xx, without calling
\* the search or the generation and without writing chat history.
C29_NoQuestionIs400 ==
    [][NoQuestion' /\ served' # served =>
          /\ cresp'.code = 400
          /\ cresp'.detail = "Question is required"
          /\ calls' = <<>>
          /\ chat_history' = chat_history]_vars

\* What does hold: nothing is called and nothing is written, but the answer is
\* a 500.
C29_NoQuestionIs500 ==
    [][NoQuestion' /\ served' # served =>
          /\ cresp'.code = 500
          /\ cresp'.detail \in RejectionTexts
          /\ calls' = <<>>
          /\ chat_history' = chat_history]_vars

---------------------------------------------------------------------------
(* chunk_text, under SpecChunk *)

\* the characters of the text at the places from + 1 .. to
Segment(text, from, to) ==
    LET n == Len(text)
        place(i) == IF i < 0 THEN 0 ELSE IF i > n THEN n ELSE i
    IN  IF place(from) < place(to) THEN SubSeq(text, place(from) + 1, place(to)) ELSE ""

\* what is said of the chunks returned for the text
ChunksAsClaimed(text, chunk_size, chunk_overlap, chunks) ==
    LET stride == chunk_size - chunk_overlap
        from(i) == (i - 1) * stride
    IN  /\ \A i \in DOMAIN chunks : Len(chunks[i]) <= chunk_size
        /\ \A i \in DOMAIN chunks :
              chunks[i] = Segment(text, from(i), from(i) + chunk_size)
        /\ \A p \in 1..Len(text) :
              \E i \in DOMAIN chunks : from(i) < p /\ p <= from(i) + Len(chunks[i])
        /\ Len(text) <= chunk_size => chunks = <<text>>

\* C30: chunk_text terminates for every text, chunk_size and chunk_overlap: each
\* iteration of its loop moves start forward, so that the end of the text is
\* reached; and the chunks returned are each at most chunk_size long, each
\* starting chunk_size - chunk_overlap after the previous one, together covering
\* the text in order, a text no longer than chunk_size being one chunk.
C30_ChunkTextTerminates ==
    [][/\ (ct.pc = "loop" /\ ct'.pc = "loop") => ct'.start > ct.start
       /\ (ct.pc # "returned" /\ ct'.pc = "returned") =>
             ChunksAsClaimed(ct'.text, ct'.chunk_size, ct'.chunk_overlap, ct'.result)]_vars

\* What does hold: the same, of the calls with chunk_overlap < chunk_size; and
\* there the loop returns what the recursive definition gives.
C30_ChunkTextWithSmallerOverlap ==
    [][ct'.pc # "idle" /\ ct'.chunk_overlap < ct'.chunk_size =>
          /\ (ct.pc = "loop" /\ ct'.pc = "loop") => ct'.start > ct.start
          /\ ct'.pc = "loop" => Len(ct'.chunks) <= Len(ct'.text)
          /\ (ct.pc # "returned" /\ ct'.pc = "returned") =>
                /\ ChunksAsClaimed(ct'.text, ct'.chunk_size, ct'.chunk_overlap,
                                   ct'.result)
                /\ ct'.result = chunk_text(ct'.text, ct'.chunk_size,
                                           ct'.chunk_overlap)]_vars

\* the loop has gone round more often than the text has characters
C30_LoopRunsOn ==
    /\ ct.pc = "loop"
    /\ Len(ct.chunks) = MaxIterations
    /\ ct.start < Len(ct.text)
====
